---- MODULE Spec2Model ----
(***************************************************************************)
(* Mix orchestrator of SAM-Studio (app/api/routes_jobs.py) together with   *)
(* the engine entry point it drives (app/worker/tasks.py process_job).     *)
(* Every step is one access to the shared maps (_jobs, _mix_states,        *)
(* _mix_tokens), to the durable job store or to the files on disk; the     *)
(* locks _jobs_lock and _mix_lock are held only for one such access, so    *)
(* handler threads and mix threads interleave between any two of them.     *)
(***************************************************************************)
EXTENDS Integers, Sequences, FiniteSets, TLC

\* ---------------------------------------------------------------- bounds
MaxTokens == 2      \* run tokens (uuid4) minted in one behaviour
MaxReqs == 2        \* HTTP handler threads serving requests concurrently
MaxPrompts == 1     \* longest prompts / gains list of a request
MaxCancels == 1     \* cancel_mix calls that find a RUNNING state
MaxDeletes == 1     \* delete_job calls that find a record to delete, cleanup_jobs calls
MaxKeep == 3        \* largest keep_latest of a cleanup request
MaxLen == 12        \* longest buffer (in samples) given to the chunked engine
MaxChunkSamples == 6    \* largest chunk_samples
MaxOverlapSamples == 4  \* largest overlap_samples asked for
MaxSamples == 3         \* longest buffer given to peak_normalize on its own
MaxSeps == 2        \* threads inside separate_prompt at once
MaxSepCalls == 3    \* separate_prompt calls in one behaviour
NumChunks == 2      \* chunk ranges of the uploaded recording in a full mix
HistoryLimit == 2   \* JOB_MIX_HISTORY_LIMIT of the deployment

Tokens == 1..MaxTokens
Reqs == 1..MaxReqs

\* ------------------------------------------------------------ optionals
\* Python's None is the empty set, a present value v is {v}.
None == {}
Some(v) == {v}
Val(s) == CHOOSE v \in s : TRUE

\* dict.get / dict[k] = v / dict.pop(k, None) on a function used as a dict
Get(d, k) == IF k \in DOMAIN d THEN Some(d[k]) ELSE None
Put(d, k, v) == [x \in DOMAIN d \cup {k} |-> IF x = k THEN v ELSE d[x]]
Pop(d, k) == [x \in DOMAIN d \ {k} |-> d[x]]

\* ------------------------------------------------------------- job ids
\* j1 was uploaded successfully, j2 is the record of a failed upload (no
\* input file), j3 was never created.
JobIds == {"j1", "j2", "j3"}

\* ------------------------------------------------------------- schemas
JobStatus == {"PENDING", "RUNNING", "DONE", "FAILED", "CANCELLED"}

\* JobMixSummary: output_name is "output-<token>.wav", kept as the token.
JobMixSummary(kind, token) == [kind |-> kind, output_name |-> token]

\* The fields the Job model declares (id and the timestamps left out).
JobFields == {"status", "detail", "last_mix", "mix_history"}

\* Job(...): error_code is no declared field, the constructor drops it.
Job(status, detail, error_code) ==
    [status |-> status, detail |-> detail, error_code |-> None,
     last_mix |-> None, mix_history |-> << >>]

\* MixResponse(...): error_code is no declared field either; the keyword is
\* accepted and dropped, so a MixResponse never holds an error code.
MixResponse(status, output_url, detail, error_code, progress, chunks_done, chunks_total, eta_seconds) ==
    [status |-> status, output_url |-> output_url, detail |-> detail,
     progress |-> progress, chunks_done |-> chunks_done,
     chunks_total |-> chunks_total, eta_seconds |-> eta_seconds]

\* getattr(state, name): AttributeError for a name the model does not hold.
HasAttr(obj, name) == name \in DOMAIN obj

\* _job_payload: model_dump of the record, its declared fields.
_job_payload(job) == [f \in JobFields |-> job[f]]

\* ---------------------------------------------------------- arithmetic
RECURSIVE Gcd(_, _)
Gcd(a, b) == IF b = 0 THEN a ELSE Gcd(b, a % b)

\* float(done) / float(total) as a reduced fraction <<num, den>>
Frac(done, total) == <<done \div Gcd(done, total), total \div Gcd(done, total)>>
Zero == Frac(0, 1)
One == Frac(1, 1)

\* Arithmetic of fractions; the denominators are positive.
FracAbs(a) == IF a[1] < 0 THEN <<0 - a[1], a[2]>> ELSE a
FracNeg(a) == <<0 - a[1], a[2]>>
FracAdd(a, b) == Frac(a[1] * b[2] + b[1] * a[2], a[2] * b[2])
FracMul(a, b) == Frac(a[1] * b[1], a[2] * b[2])
FracDiv(a, b) == Frac(a[1] * b[2], a[2] * b[1])
FracLe(a, b) == a[1] * b[2] <= b[1] * a[2]
FracMin(a, b) == IF FracLe(a, b) THEN a ELSE b
FracMax(a, b) == IF FracLe(a, b) THEN b ELSE a

Min(a, b) == IF a <= b THEN a ELSE b
Max(a, b) == IF a >= b THEN a ELSE b

\* ------------------------------------------------------ error taxonomy
\* An exception is its class name and its message, the message a sequence
\* of lower-cased words; "x in lowered" is a contiguous run of words.
Exc(cls, words) == [cls |-> cls, words |-> words]

Contains(words, phrase) ==
    \E i \in 0..(Len(words) - Len(phrase)) :
        \A k \in 1..Len(phrase) : words[i + k] = phrase[k]

\* The errors the engine raises in this model.
ExcType == Exc("TypeError", <<"separate_prompt()", "got", "an", "unexpected", "keyword", "argument", "job_id">>)
ExcOOM == Exc("RuntimeError", <<"cuda", "out", "of", "memory">>)
ExcBare == Exc("ValueError", << >>)
ExcNoFile == Exc("FileNotFoundError", <<"no", "such", "file", "or", "directory">>)
ExcAttr == Exc("AttributeError", <<"mixresponse", "object", "has", "no", "attribute", "error_code">>)
ExcCancelled == Exc("CancelledError", <<"cancelled">>)
ExcBroadcast == Exc("ValueError", <<"operands", "could", "not", "be", "broadcast", "together">>)
ExcSndfile == Exc("RuntimeError", <<"error", "opening", "format", "not", "recognised">>)
NoExc == Exc("", << >>)

\* run_separation, tasks.py 126-127: one separate_prompt(..., job_id=job_id)
\* call per prompt. sam_audio.separate_prompt (365) takes audio, sr and
\* prompt only, so the first call raises TypeError before the model runs;
\* without prompts there is no call and run_separation returns.
run_separation(prompts) == IF prompts > 0 THEN ExcType ELSE NoExc

\* What the separation can raise (an ordinary Exception). ExcOOM and ExcBare
\* are errors of the separation model itself, which is never entered.
EngineErrors == {ExcType}

\* classify_error: <<code, detail>>; an empty message becomes the class name.
Classify_words(exc) == IF exc.words = << >> THEN <<exc.cls>> ELSE exc.words

classify_error(exc) ==
    LET message == Classify_words(exc)
        has(p) == Contains(message, p)
        code ==
            IF has(<<"input", "audio", "not", "found">>) THEN "INPUT_NOT_FOUND"
            ELSE IF has(<<"ffmpeg", "not", "found">>) \/ (has(<<"ffmpeg">>) /\ has(<<"not", "found">>))
                THEN "FFMPEG_MISSING"
            ELSE IF has(<<"soundfile", "is", "required">>) \/ (has(<<"soundfile">>) /\ has(<<"audio", "i/o">>))
                THEN "SOUNDFILE_MISSING"
            ELSE IF has(<<"sam-audio", "is", "not", "installed">>) \/ has(<<"no", "module", "named", "sam_audio">>)
                THEN "SAM_AUDIO_MISSING"
            ELSE IF has(<<"pytorch", "is", "required">>) \/ has(<<"no", "module", "named", "torch">>)
                THEN "TORCH_MISSING"
            ELSE IF has(<<"out", "of", "memory">>) THEN "DEVICE_OOM"
            ELSE IF has(<<"expected", "input">>) /\ has(<<"channels">>) /\ has(<<"but", "got">>)
                THEN "SHAPE_MISMATCH"
            ELSE IF has(<<"hf_token">>) \/ (has(<<"token">>) /\ has(<<"huggingface">>))
                THEN "HF_TOKEN_MISSING"
            ELSE IF has(<<"gated">>)
                    \/ (has(<<"huggingface">>)
                        /\ (has(<<"access">>) \/ has(<<"unauthorized">>)
                            \/ has(<<"forbidden">>) \/ has(<<"not", "found">>)))
                THEN "HF_ACCESS"
            ELSE "UNKNOWN_ERROR"
    IN  <<code, message>>

\* ---------------------------------------------------------- mix history
_mix_history_limit == IF HistoryLimit > 1 THEN HistoryLimit ELSE 1

\* Variant of the cut that keeps the oldest entries, history[:limit].
FirstN(seq, n) == IF Len(seq) > n THEN SubSeq(seq, 1, n) ELSE seq

\* history[-limit:]
LastN(seq, n) == IF Len(seq) > n THEN SubSeq(seq, Len(seq) - n + 1, Len(seq)) ELSE seq

\* _append_mix_history(job, summary)
_append_mix_history(job, summary) ==
    LET history == Append(job.mix_history, summary)
        limit == _mix_history_limit
    IN  [job EXCEPT !.last_mix = Some(summary),
                    !.mix_history = IF Len(history) > limit THEN LastN(history, limit) ELSE history]

\* --------------------------------------------------------------- state
VARIABLES
    jobs,         \* _jobs: job id -> Job
    job_store,    \* data/jobs/<id>.json: job id -> persisted payload
    job_files,    \* job ids with a _job_files entry whose input.wav exists
    mix_states,   \* _mix_states: job id -> MixResponse
    mix_tokens,   \* _mix_tokens: job id -> run token
    outputs,      \* the t whose output-<t>.wav exists, least recently modified first
    cache,        \* settings hashes with a whole-output cache entry
    chunk_cache,  \* per-chunk cache: key (fingerprint, start, end) -> samples in the file
    req,          \* handler thread -> the request it is serving
    run,          \* run token -> the mix thread started for it
    minted,       \* run tokens minted so far
    cancels,      \* cancel_mix calls that found a RUNNING state so far
    deletes,      \* delete_job calls that found a record and cleanup_jobs calls so far
    calc          \* a call of a function of tasks.py or hash_cache.py on its own

vars == <<jobs, job_store, job_files, mix_states, mix_tokens, outputs, cache, chunk_cache, req, run, minted, cancels, deletes, calc>>
calls == <<minted, cancels, deletes>>
maps == <<jobs, job_store, job_files, mix_states, mix_tokens>>
disk == <<outputs, cache, chunk_cache>>

\* The modes of a request.
Modes == {"keep", "remove"}

\* build_settings_fingerprint: with the texts of the prompts, the gains and
\* the sample rate fixed, the hash is decided by the number of prompts, the
\* mode and the preview window (which also decides the chunk settings).
build_settings_fingerprint(prompts, mode, preview) ==
    <<prompts, mode, IF preview THEN "preview" ELSE "full">>
SettingsHashes ==
    {build_settings_fingerprint(p, m, v) : p \in 0..MaxPrompts, m \in Modes, v \in BOOLEAN}

\* A handler thread: the call it serves, where it is in it, the request
\* (job id, lengths of prompts and gains, force, preview), its locals (job,
\* state, token; token 0 before one is minted) and its response.
IdleReq ==
    [op |-> "idle", pc |-> "idle", job_id |-> "j3", prompts |-> 0, gains |-> 0,
     force |-> FALSE, preview |-> FALSE,
     job |-> None, state |-> None, token |-> 0, result |-> None,
     keep_latest |-> None, todo |-> << >>, removed_jobs |-> << >>,
     cleared_outputs |-> 0, cleared_cache |-> FALSE]

NoRun ==
    [pc |-> "none", caller |-> "", job_id |-> "j3", prompts |-> 0, mode |-> "keep",
     preview |-> FALSE, cache_dir |-> FALSE, running |-> None, exc |-> NoExc,
     done |-> 0, invoked |-> 0, last_progress |-> FALSE, state |-> None]

\* Files of a directory in the order of their st_mtime: writing or copying
\* to a path makes it the most recently modified.
Touch(files, name) == Append(SelectSeq(files, LAMBDA f : f # name), name)
Exists(files, name) == \E i \in 1..Len(files) : files[i] = name

\* The job whose output directory holds output-<t>.wav: the job of run t;
\* output 0 is of a mix of j1 made before the process started.
OutputJob(t) == IF t \in Tokens THEN run[t].job_id ELSE "j1"

\* The summary of the mix of j1 an earlier process made, output-0.wav.
EarlierMix == JobMixSummary("full", 0)

\* After start-up (_load_jobs_from_disk): j1 was uploaded (create_job stores
\* it DONE), with or without a mix made by an earlier process; j2 is the
\* record of a failed upload; no mix was started; the cache directory holds
\* what earlier processes left there.
Started ==
    /\ \E earlier \in BOOLEAN :
        /\ jobs = [j \in {"j1", "j2"} |->
                    IF j = "j2"
                    THEN Job("FAILED", Some(<<"ffmpeg", "not", "found">>), Some("FFMPEG_MISSING"))
                    ELSE IF earlier THEN _append_mix_history(Job("DONE", None, None), EarlierMix)
                    ELSE Job("DONE", None, None)]
        /\ outputs = IF earlier THEN <<0>> ELSE << >>
    /\ job_store = [j \in {"j1", "j2"} |-> _job_payload(jobs[j])]
    /\ job_files = {"j1"}
    /\ mix_states = [j \in {} |-> None]
    /\ mix_tokens = [j \in {} |-> 0]
    /\ cache \in {{}, {build_settings_fingerprint(MaxPrompts, "keep", TRUE)}}
    /\ chunk_cache = << >>
    /\ req = [q \in Reqs |-> IdleReq]
    /\ run = [t \in Tokens |-> NoRun]
    /\ minted = 0
    /\ cancels = 0
    /\ deletes = 0

\* No call of a function on its own.
NoCalc == [op |-> "none"]

Init == Started /\ calc = NoCalc

\* ------------------------------------------------------ shared helpers
\* _set_mix_state: replaces the state; stores the token when one is given.
_set_mix_state(job_id, state, token) ==
    /\ mix_states' = Put(mix_states, job_id, state)
    /\ mix_tokens' = IF token = None THEN mix_tokens ELSE Put(mix_tokens, job_id, Val(token))

\* Variant of _should_finalize without the status test.
_should_finalize_token_only(job_id, token) ==
    /\ job_id \in DOMAIN mix_states
    /\ Get(mix_tokens, job_id) = Some(token)

\* _should_finalize: state present, RUNNING, and the token still current.
_should_finalize(job_id, token) ==
    /\ job_id \in DOMAIN mix_states
    /\ mix_states[job_id].status = "RUNNING"
    /\ Get(mix_tokens, job_id) = Some(token)

\* _set_job, lines 82-83: the in-memory write under _jobs_lock.
_set_job(job_id, job) == jobs' = Put(jobs, job_id, job)

\* _persist_job, lines 72-78 (called at line 84, after the lock is
\* released): data/jobs/<id>.json is replaced by the payload of the job the
\* caller holds.
_persist_job(job_id, job) == job_store' = Put(job_store, job_id, _job_payload(job))

\* HTTP responses
Ok(body) == Some([http |-> 200, body |-> body])
HttpError(code, error_code) == Some([http |-> code, body |-> error_code])

\* The handler has its response: the locals but the token and the state
\* read are dropped.
Respond(q, result) ==
    [IdleReq EXCEPT !.op = req[q].op, !.pc = "ret", !.job_id = req[q].job_id,
                    !.prompts = req[q].prompts, !.gains = req[q].gains,
                    !.force = req[q].force, !.token = req[q].token,
                    !.state = req[q].state, !.result = result]

\* Sending a response touches nothing shared, so it commutes with every
\* other step: it is taken as soon as it is enabled, before any other step.
NoResponsePending == \A q \in Reqs : req[q].pc # "ret"

\* Mix requests accepted but not yet given a token: each may mint one.
Pending == {q \in Reqs : req[q].op = "mix" /\ req[q].pc = "mix_existing"}

\* ------------------------------------------------------------- mix_job
\* Variant of the validation without the empty-prompts test.
MixValidationErrorEmptyAllowed(job_id, prompts, gains) ==
    IF job_id \notin DOMAIN jobs THEN HttpError(404, "JOB_NOT_FOUND")
    ELSE IF job_id \notin job_files THEN HttpError(404, "INPUT_NOT_FOUND")
    ELSE IF prompts # gains THEN HttpError(400, "PROMPT_GAIN_MISMATCH")
    ELSE None

\* Lines 345-369: the first validation failure, or None.
MixValidationError(job_id, prompts, gains) ==
    IF job_id \notin DOMAIN jobs THEN HttpError(404, "JOB_NOT_FOUND")
    ELSE IF job_id \notin job_files THEN HttpError(404, "INPUT_NOT_FOUND")
    ELSE IF prompts = 0 THEN HttpError(400, "PROMPTS_REQUIRED")
    ELSE IF prompts # gains THEN HttpError(400, "PROMPT_GAIN_MISMATCH")
    ELSE None

\* Variant of the single-flight test with the force flag inverted.
SingleFlightForced(existing, force) ==
    existing # None /\ Val(existing).status = "RUNNING" /\ force

\* Line 383: the single-flight test on the state read at line 382.
SingleFlight(existing, force) ==
    existing # None /\ Val(existing).status = "RUNNING" /\ ~force

\* Lines 345-380: read the job, validate the request, resolve the preview.
MixJobValidate(q) ==
    /\ NoResponsePending
    /\ req[q].pc = "idle"
    /\ \E job_id \in JobIds, prompts \in 0..MaxPrompts, gains \in 0..MaxPrompts,
          force \in BOOLEAN, preview \in BOOLEAN :
        LET error == MixValidationError(job_id, prompts, gains)
            call == [IdleReq EXCEPT !.op = "mix", !.job_id = job_id,
                                    !.prompts = prompts, !.gains = gains]
        IN
        IF error # None
        THEN /\ force = FALSE /\ preview = FALSE
             /\ req' = [req EXCEPT ![q] = [call EXCEPT !.pc = "ret", !.result = error]]
        ELSE /\ minted + Cardinality(Pending) < MaxTokens
             /\ req' = [req EXCEPT ![q] = [call EXCEPT !.pc = "mix_existing", !.force = force,
                                               !.preview = preview, !.job = Get(jobs, job_id)]]
    /\ UNCHANGED <<calc, maps, disk, run, calls>>

\* Lines 382-390: single-flight on the state read now; otherwise mint the
\* token and copy the job read at line 345 with status RUNNING.
MixJobExisting(q) ==
    /\ NoResponsePending
    /\ req[q].op = "mix" /\ req[q].pc = "mix_existing"
    /\ LET existing == Get(mix_states, req[q].job_id) IN
       IF SingleFlight(existing, req[q].force)
       THEN /\ req' = [req EXCEPT ![q] = Respond(q, Ok(Val(existing)))]
            /\ UNCHANGED minted
       ELSE /\ minted' = minted + 1
            /\ req' = [req EXCEPT ![q].pc = "mix_set_job", ![q].token = minted + 1,
                                  ![q].job = Some([Val(req[q].job) EXCEPT !.status = "RUNNING"])]
    /\ UNCHANGED <<calc, maps, disk, run, cancels, deletes>>

\* Line 391: _set_job(running), the in-memory write.
MixJobSetJob(q) ==
    /\ NoResponsePending
    /\ req[q].op = "mix" /\ req[q].pc = "mix_set_job"
    /\ _set_job(req[q].job_id, Val(req[q].job))
    /\ req' = [req EXCEPT ![q].pc = "mix_persist"]
    /\ UNCHANGED <<calc, job_store, job_files, mix_states, mix_tokens, disk, run, calls>>

\* Line 84 within the _set_job calls of mix_job (391) and cancel_mix (327):
\* the record the handler holds is persisted.
ReqPersistJob(q) ==
    /\ NoResponsePending
    /\ req[q].pc \in {"mix_persist", "cancel_persist"}
    /\ _persist_job(req[q].job_id, Val(req[q].job))
    /\ req' = [req EXCEPT ![q] =
                  IF req[q].pc = "mix_persist" THEN [@ EXCEPT !.pc = "mix_set_state"]
                  ELSE [@ EXCEPT !.pc = "cancel_set_state", !.job = None]]
    /\ UNCHANGED <<calc, jobs, job_files, mix_states, mix_tokens, disk, run, calls>>

\* Line 392: RUNNING, progress 0, the new token; line 530: the mix thread
\* is started (it takes its first step whenever it is scheduled); _run_mix
\* closes over job_id, the payload (mode "keep" in every request here), the
\* token and the running copy, and calls process_job with the cache root.
MixJobSetState(q) ==
    /\ NoResponsePending
    /\ req[q].op = "mix" /\ req[q].pc = "mix_set_state"
    /\ _set_mix_state(req[q].job_id,
                      MixResponse("RUNNING", None, None, None, Some(Zero), None, None, None),
                      Some(req[q].token))
    /\ run' = [run EXCEPT ![req[q].token] =
                  [NoRun EXCEPT !.pc = "pj_cancel_state", !.caller = "_run_mix",
                                !.job_id = req[q].job_id, !.cache_dir = TRUE,
                                !.prompts = req[q].prompts, !.mode = "keep",
                                !.preview = req[q].preview, !.running = req[q].job]]
    /\ req' = [req EXCEPT ![q].pc = "mix_return", ![q].job = None]
    /\ UNCHANGED <<calc, jobs, job_store, job_files, disk, calls>>

\* Variant of the return that answers with the state recorded at line 392,
\* whatever the state map holds by now.
MixJobReturnRecorded(q) ==
    /\ NoResponsePending
    /\ req[q].op = "mix" /\ req[q].pc = "mix_return"
    /\ req' = [req EXCEPT ![q] =
                  Respond(q, Ok(MixResponse("RUNNING", None, None, None, Some(Zero), None, None, None)))]
    /\ UNCHANGED <<calc, maps, disk, run, calls>>

\* Line 531: the state as it is now, or a bare RUNNING one.
MixJobReturn(q) ==
    /\ NoResponsePending
    /\ req[q].op = "mix" /\ req[q].pc = "mix_return"
    /\ LET state == Get(mix_states, req[q].job_id) IN
       req' = [req EXCEPT ![q] =
                  Respond(q, IF state # None THEN Ok(Val(state))
                             ELSE Ok(MixResponse("RUNNING", None, None, None, None, None, None, None)))]
    /\ UNCHANGED <<calc, maps, disk, run, calls>>

\* The response is sent; the handler thread is free again.
Return(q) ==
    /\ req[q].pc = "ret"
    /\ req' = [req EXCEPT ![q] = IdleReq]
    /\ UNCHANGED <<calc, maps, disk, run, calls>>

\* ---------------------------------------------------------- cancel_mix
\* Variant of the test of line 323 that lets a DONE state be cancelled.
CancelNoOpUnlessDone(state) == state.status \notin {"RUNNING", "DONE"}

\* Line 323: a state that is not RUNNING is returned as it is.
CancelNoOp(state) == state.status # "RUNNING"

\* Lines 320-324: not-found without a state, the state itself unless RUNNING.
CancelMixRead(q) ==
    /\ NoResponsePending
    /\ req[q].pc = "idle"
    /\ \E job_id \in JobIds :
        LET state == Get(mix_states, job_id)
            call == [IdleReq EXCEPT !.op = "cancel", !.job_id = job_id]
        IN  IF state = None
            THEN /\ req' = [req EXCEPT ![q] = [call EXCEPT !.pc = "ret",
                                                   !.result = HttpError(404, "mix not started")]]
                 /\ UNCHANGED cancels
            ELSE IF CancelNoOp(Val(state))
            THEN /\ req' = [req EXCEPT ![q] = [call EXCEPT !.pc = "ret", !.result = Ok(Val(state))]]
                 /\ UNCHANGED cancels
            ELSE /\ cancels < MaxCancels
                 /\ cancels' = cancels + 1
                 /\ req' = [req EXCEPT ![q] = [call EXCEPT !.pc = "cancel_get_job", !.state = state]]
    /\ UNCHANGED <<calc, maps, disk, run, minted, deletes>>

\* Line 325: job = _jobs.get(job_id); lines 328-330 copy it as CANCELLED.
CancelMixGetJob(q) ==
    /\ NoResponsePending
    /\ req[q].op = "cancel" /\ req[q].pc = "cancel_get_job"
    /\ LET job == Get(jobs, req[q].job_id) IN
       req' = [req EXCEPT ![q] =
                   IF job = None THEN [@ EXCEPT !.pc = "cancel_set_state"]
                   ELSE [@ EXCEPT !.pc = "cancel_set_job",
                                  !.job = Some([Val(job) EXCEPT !.status = "CANCELLED"])]]
    /\ UNCHANGED <<calc, maps, disk, run, calls>>

\* Line 327: _set_job of that copy, the in-memory write.
CancelMixSetJob(q) ==
    /\ NoResponsePending
    /\ req[q].op = "cancel" /\ req[q].pc = "cancel_set_job"
    /\ _set_job(req[q].job_id, Val(req[q].job))
    /\ req' = [req EXCEPT ![q].pc = "cancel_persist"]
    /\ UNCHANGED <<calc, job_store, job_files, mix_states, mix_tokens, disk, run, calls>>

\* Variant of the CANCELLED state without the progress fields.
CancelledBare(state) ==
    MixResponse("CANCELLED", None, Some(<<"cancelled">>), None, None, None, None, None)

\* Lines 332-340: the state written as CANCELLED from the one read at 320.
CancelledFrom(state) ==
    MixResponse("CANCELLED", None, Some(<<"cancelled">>), None, state.progress,
                state.chunks_done, state.chunks_total, state.eta_seconds)

CancelMixSetState(q) ==
    /\ NoResponsePending
    /\ req[q].op = "cancel" /\ req[q].pc = "cancel_set_state"
    /\ _set_mix_state(req[q].job_id, CancelledFrom(Val(req[q].state)), None)
    /\ req' = [req EXCEPT ![q] = Respond(q, Ok(CancelledFrom(Val(req[q].state))))]
    /\ UNCHANGED <<calc, jobs, job_store, job_files, disk, run, calls>>

\* ------------------------------------------------------ get_mix_status
\* Variant of _latest_output_file that takes the oldest output.
_oldest_output_file(job_id) ==
    LET candidates == SelectSeq(outputs, LAMBDA t : OutputJob(t) = job_id)
    IN  IF candidates = << >> THEN None ELSE Some(candidates[1])

\* _latest_output_file, lines 221-232: the most recently modified output of
\* the job's output directory, None without one.
_latest_output_file(job_id) ==
    LET candidates == SelectSeq(outputs, LAMBDA t : OutputJob(t) = job_id)
    IN  IF candidates = << >> THEN None ELSE Some(candidates[Len(candidates)])

\* Lines 301-303: the stored state is returned as it is.
GetMixStatusRead(q) ==
    /\ NoResponsePending
    /\ req[q].pc = "idle"
    /\ \E job_id \in JobIds :
        LET state == Get(mix_states, job_id)
            call == [IdleReq EXCEPT !.op = "status", !.job_id = job_id]
        IN  req' = [req EXCEPT ![q] =
                       IF state # None
                       THEN [call EXCEPT !.pc = "ret", !.state = state, !.result = Ok(Val(state))]
                       ELSE [call EXCEPT !.pc = "status_latest"]]
    /\ UNCHANGED <<calc, maps, disk, run, calls>>

\* Lines 304-315: without a state, a DONE view of the latest output file, or
\* not-found without one.
GetMixStatusLatest(q) ==
    /\ NoResponsePending
    /\ req[q].op = "status" /\ req[q].pc = "status_latest"
    /\ LET output_file == _latest_output_file(req[q].job_id) IN
       req' = [req EXCEPT ![q] =
                  Respond(q, IF output_file # None
                             THEN Ok(MixResponse("DONE", output_file, None, None, None, None, None, None))
                             ELSE HttpError(404, "mix not started"))]
    /\ UNCHANGED <<calc, maps, disk, run, calls>>

\* ---------------------------------------------------------- delete_job
\* The ids delete_job is called with: the uploaded job and the unknown one.
DeleteIds == {"j1", "j3"}

\* Lines 603-604: job = _jobs.pop(job_id, None).
DeleteJobPop(q) ==
    /\ NoResponsePending
    /\ req[q].pc = "idle"
    /\ \E job_id \in DeleteIds :
        /\ req' = [req EXCEPT ![q] = [IdleReq EXCEPT !.op = "delete", !.pc = "delete_store",
                                          !.job_id = job_id, !.job = Get(jobs, job_id)]]
        /\ jobs' = Pop(jobs, job_id)
        /\ IF job_id \in DOMAIN jobs \cup DOMAIN job_store
           THEN deletes < MaxDeletes /\ deletes' = deletes + 1
           ELSE UNCHANGED deletes
    /\ UNCHANGED <<calc, job_store, job_files, mix_states, mix_tokens, disk, run, minted, cancels>>

\* Lines 605-609: not-found without any record, else the durable one goes.
DeleteJobStore(q) ==
    /\ NoResponsePending
    /\ req[q].op = "delete" /\ req[q].pc = "delete_store"
    /\ IF req[q].job = None /\ req[q].job_id \notin DOMAIN job_store
       THEN /\ req' = [req EXCEPT ![q] = Respond(q, HttpError(404, "job not found"))]
            /\ UNCHANGED job_store
       ELSE /\ req' = [req EXCEPT ![q].pc = "delete_files", ![q].job = None]
            /\ job_store' = Pop(job_store, req[q].job_id)
    /\ UNCHANGED <<calc, jobs, job_files, mix_states, mix_tokens, disk, run, calls>>

\* Lines 610-611: the _job_files entry, the upload and the output directory.
DeleteJobFiles(q) ==
    /\ NoResponsePending
    /\ req[q].op = "delete" /\ req[q].pc = "delete_files"
    /\ job_files' = job_files \ {req[q].job_id}
    /\ outputs' = SelectSeq(outputs, LAMBDA t : OutputJob(t) # req[q].job_id)
    /\ req' = [req EXCEPT ![q].pc = "delete_mix"]
    /\ UNCHANGED <<calc, jobs, job_store, mix_states, mix_tokens, cache, chunk_cache, run, calls>>

\* Variant of the last step of delete_job that drops the state and leaves
\* the token.
DeleteJobMixKeepToken(q) ==
    /\ NoResponsePending
    /\ req[q].op = "delete" /\ req[q].pc = "delete_mix"
    /\ mix_states' = Pop(mix_states, req[q].job_id)
    /\ req' = [req EXCEPT ![q] = Respond(q, Ok("deleted"))]
    /\ UNCHANGED <<calc, jobs, job_store, job_files, mix_tokens, disk, run, calls>>

\* Lines 612-615: state and token go together, under _mix_lock.
DeleteJobMix(q) ==
    /\ NoResponsePending
    /\ req[q].op = "delete" /\ req[q].pc = "delete_mix"
    /\ mix_states' = Pop(mix_states, req[q].job_id)
    /\ mix_tokens' = Pop(mix_tokens, req[q].job_id)
    /\ req' = [req EXCEPT ![q] = Respond(q, Ok("deleted"))]
    /\ UNCHANGED <<calc, jobs, job_store, job_files, disk, run, calls>>

\* ------------------------------------------- cleanup_jobs

\* Job.created_at: the time of the upload (lines 243 and 271); no update of
\* a Job changes it. The jobs were uploaded in the order j1, j2, j3.
created_at == [j \in JobIds |-> IF j = "j1" THEN 1 ELSE IF j = "j2" THEN 2 ELSE 3]

\* list(_jobs.values()), lines 576-577: the jobs in the order of their
\* insertion into the map, the order of the uploads.
RECURSIVE InsertionOrder(_)
InsertionOrder(ids) ==
    IF ids = {} THEN << >>
    ELSE LET first == CHOOSE j \in ids : \A o \in ids : created_at[j] <= created_at[o]
         IN  <<first>> \o InsertionOrder(ids \ {first})

\* Variant of the sort that puts the oldest job first.
jobs_sorted_oldest_first(ids) == InsertionOrder(ids)

\* Line 561: sorted(jobs, key=created_at, reverse=True), the newest first.
RECURSIVE jobs_sorted(_)
jobs_sorted(ids) ==
    IF ids = {} THEN << >>
    ELSE LET first == CHOOSE j \in ids : \A o \in ids : created_at[j] >= created_at[o]
         IN  <<first>> \o jobs_sorted(ids \ {first})

\* The Job objects the handler holds after listing the map under _jobs_lock.
Snapshot(ids) == [i \in 1..Len(ids) |-> [id |-> ids[i], job |-> jobs[ids[i]]]]

\* Where cleanup_jobs goes on after the removal loop (line 575) and after
\* the output loop (line 585). The flags of the request are drawn where
\* the handler reads them.
AfterOutputs(clear_cache) == IF clear_cache THEN "cleanup_cache" ELSE "cleanup_return"
AfterRemoval(clear_outputs, clear_cache) ==
    IF clear_outputs THEN "cleanup_list" ELSE AfterOutputs(clear_cache)

\* Lines 555-562: keep_latest below 0 becomes 0; the jobs are listed under
\* _jobs_lock and sorted, and all but the first keep_latest are to go.
CleanupJobsSorted(q) ==
    /\ NoResponsePending
    /\ req[q].pc = "idle"
    /\ deletes < MaxDeletes /\ deletes' = deletes + 1
    /\ \E keep_latest \in {None} \cup {Some(n) : n \in -1..MaxKeep},
          clear_outputs \in BOOLEAN, clear_cache \in BOOLEAN :
        LET kept == IF keep_latest = None THEN None ELSE Some(Max(0, Val(keep_latest)))
            sorted == Snapshot(jobs_sorted(DOMAIN jobs))
            todo == IF kept = None THEN << >>
                    ELSE SubSeq(sorted, Val(kept) + 1, Len(sorted))
        IN  req' = [req EXCEPT ![q] =
                       [IdleReq EXCEPT !.op = "cleanup", !.keep_latest = kept, !.todo = todo,
                                       !.pc = IF todo # << >> THEN "cleanup_pop"
                                              ELSE AfterRemoval(clear_outputs, clear_cache)]]
    /\ UNCHANGED <<calc, maps, disk, run, minted, cancels>>

\* Lines 563-565: the id is noted and the in-memory record popped.
CleanupPop(q) ==
    /\ NoResponsePending
    /\ req[q].op = "cleanup" /\ req[q].pc = "cleanup_pop"
    /\ jobs' = Pop(jobs, Head(req[q].todo).id)
    /\ req' = [req EXCEPT ![q].pc = "cleanup_unlink",
                          ![q].removed_jobs = Append(@, Head(req[q].todo).id)]
    /\ UNCHANGED <<calc, job_store, job_files, mix_states, mix_tokens, disk, run, calls>>

\* Lines 566-568: the durable record goes.
CleanupUnlink(q) ==
    /\ NoResponsePending
    /\ req[q].op = "cleanup" /\ req[q].pc = "cleanup_unlink"
    /\ job_store' = Pop(job_store, Head(req[q].todo).id)
    /\ req' = [req EXCEPT ![q].pc = "cleanup_files"]
    /\ UNCHANGED <<calc, jobs, job_files, mix_states, mix_tokens, disk, run, calls>>

\* Lines 569-570: the _job_files entry, the upload and the output directory.
CleanupFiles(q) ==
    /\ NoResponsePending
    /\ req[q].op = "cleanup" /\ req[q].pc = "cleanup_files"
    /\ job_files' = job_files \ {Head(req[q].todo).id}
    /\ outputs' = SelectSeq(outputs, LAMBDA t : OutputJob(t) # Head(req[q].todo).id)
    /\ req' = [req EXCEPT ![q].pc = "cleanup_mix"]
    /\ UNCHANGED <<calc, jobs, job_store, mix_states, mix_tokens, cache, chunk_cache, run, calls>>

\* Lines 571-573: state and token go together, under _mix_lock; then the
\* next job of the loop.
CleanupMix(q) ==
    /\ NoResponsePending
    /\ req[q].op = "cleanup" /\ req[q].pc = "cleanup_mix"
    /\ mix_states' = Pop(mix_states, Head(req[q].todo).id)
    /\ mix_tokens' = Pop(mix_tokens, Head(req[q].todo).id)
    /\ \E clear_outputs \in BOOLEAN, clear_cache \in BOOLEAN :
        req' = [req EXCEPT ![q].todo = Tail(@),
                           ![q].pc = IF Tail(req[q].todo) # << >> THEN "cleanup_pop"
                                     ELSE AfterRemoval(clear_outputs, clear_cache)]
    /\ UNCHANGED <<calc, jobs, job_store, job_files, disk, run, calls>>

\* Lines 575-577: with clear_outputs the jobs that are left are listed.
CleanupList(q) ==
    /\ NoResponsePending
    /\ req[q].op = "cleanup" /\ req[q].pc = "cleanup_list"
    /\ \E clear_cache \in BOOLEAN :
        LET todo == Snapshot(InsertionOrder(DOMAIN jobs)) IN
        req' = [req EXCEPT ![q].todo = todo,
                           ![q].pc = IF todo # << >> THEN "cleanup_purge"
                                     ELSE AfterOutputs(clear_cache)]
    /\ UNCHANGED <<calc, maps, disk, run, calls>>

\* Lines 578-581: _purge_output_dir removes the output directory of the job
\* and is counted when there was one; a job that holds a last mix or a
\* history is to be written back without them.
CleanupPurge(q) ==
    /\ NoResponsePending
    /\ req[q].op = "cleanup" /\ req[q].pc = "cleanup_purge"
    /\ LET item == Head(req[q].todo)
           existed == \E i \in 1..Len(outputs) : OutputJob(outputs[i]) = item.id
           rewrite == item.job.last_mix # None \/ item.job.mix_history # << >>
       IN  /\ outputs' = SelectSeq(outputs, LAMBDA t : OutputJob(t) # item.id)
           /\ \E clear_cache \in BOOLEAN :
              req' = [req EXCEPT ![q] =
                  IF rewrite
                  THEN [@ EXCEPT !.pc = "cleanup_set_job", !.job_id = item.id,
                                 !.cleared_outputs = IF existed THEN @ + 1 ELSE @,
                                 !.job = Some([item.job EXCEPT !.last_mix = None,
                                                              !.mix_history = << >>])]
                  ELSE [@ EXCEPT !.todo = Tail(@),
                                 !.cleared_outputs = IF existed THEN @ + 1 ELSE @,
                                 !.pc = IF Tail(req[q].todo) # << >> THEN "cleanup_purge"
                                        ELSE AfterOutputs(clear_cache)]]
    /\ UNCHANGED <<calc, maps, cache, chunk_cache, run, calls>>

\* Line 582: _set_job(updated), the in-memory write.
CleanupSetJob(q) ==
    /\ NoResponsePending
    /\ req[q].op = "cleanup" /\ req[q].pc = "cleanup_set_job"
    /\ _set_job(req[q].job_id, Val(req[q].job))
    /\ req' = [req EXCEPT ![q].pc = "cleanup_persist"]
    /\ UNCHANGED <<calc, job_store, job_files, mix_states, mix_tokens, disk, run, calls>>

\* Line 84 within that _set_job: the record is persisted; then the next job.
CleanupPersist(q) ==
    /\ NoResponsePending
    /\ req[q].op = "cleanup" /\ req[q].pc = "cleanup_persist"
    /\ _persist_job(req[q].job_id, Val(req[q].job))
    /\ \E clear_cache \in BOOLEAN :
        req' = [req EXCEPT ![q].todo = Tail(@), ![q].job = None,
                           ![q].pc = IF Tail(req[q].todo) # << >> THEN "cleanup_purge"
                                     ELSE AfterOutputs(clear_cache)]
    /\ UNCHANGED <<calc, jobs, job_files, mix_states, mix_tokens, disk, run, calls>>

\* Lines 585-589: the cache directory, chunk entries included, is removed
\* and made again.
CleanupCache(q) ==
    /\ NoResponsePending
    /\ req[q].op = "cleanup" /\ req[q].pc = "cleanup_cache"
    /\ cache' = {} /\ chunk_cache' = << >>
    /\ req' = [req EXCEPT ![q].pc = "cleanup_return", ![q].cleared_cache = TRUE]
    /\ UNCHANGED <<calc, maps, outputs, run, calls>>

\* Lines 591-598: the jobs left are counted under _jobs_lock and the
\* response is built.
CleanupReturn(q) ==
    /\ NoResponsePending
    /\ req[q].op = "cleanup" /\ req[q].pc = "cleanup_return"
    /\ req' = [req EXCEPT ![q] =
                  Respond(q, Ok([removed_jobs |-> req[q].removed_jobs,
                                 remaining_jobs |-> Cardinality(DOMAIN jobs),
                                 cleared_outputs |-> req[q].cleared_outputs,
                                 cleared_cache |-> req[q].cleared_cache]))]
    /\ UNCHANGED <<calc, maps, disk, run, calls>>

\* ------------------------------------------- process_job: the engine
Total(r) == IF run[r].preview THEN 1 ELSE NumChunks

\* _run_mix passes should_cancel and progress_callback; a direct caller
\* (scripts/benchmark_sam_audio.py 266) passes neither.
HasCallbacks(r) == run[r].caller = "_run_mix"

\* Where the engine goes on once a progress report has returned.
AfterProgress(r) ==
    IF ~run[r].preview /\ run[r].done < NumChunks THEN "ch_cancel_state" ELSE "write_out"

\* Where the chunk loop goes on after a chunk when nothing is reported.
AfterChunk(done) == IF done < NumChunks THEN "ch_sep" ELSE "write_out"

\* An exception leaves process_job: _run_mix catches it in the handler named,
\* a direct caller gets it.
Raise(r, exc, handler) ==
    [run[r] EXCEPT !.pc = IF HasCallbacks(r) THEN handler ELSE "raised", !.exc = exc]

\* process_job returns its output path: _run_mix goes on to line 450.
Returned(r) == IF HasCallbacks(r) THEN "fin_check" ELSE "returned"

\* _run_mix has returned: the thread is gone.
Finished(r) == [NoRun EXCEPT !.pc = "done", !.job_id = run[r].job_id]

\* run_separation without prompts: mix_tracks([]) is an empty array, the
\* output of mode "keep"; mode "remove" gives the input back.
EmptyOutput(prompts, mode) == prompts = 0 /\ mode = "keep"

\* _should_cancel, lines 428-432: the state read (tasks.py 218 and 169 call it).
RunShouldCancelState(r) ==
    /\ NoResponsePending
    /\ run[r].pc \in {"pj_cancel_state", "ch_cancel_state"}
    /\ LET state == Get(mix_states, run[r].job_id) IN
       run' = [run EXCEPT ![r] =
                  IF state = None \/ Val(state).status = "CANCELLED"
                  THEN Raise(r, ExcCancelled, "can_read")
                  ELSE [@ EXCEPT !.pc = IF run[r].pc = "pj_cancel_state"
                                        THEN "pj_cancel_token" ELSE "ch_cancel_token"]]
    /\ UNCHANGED <<calc, maps, disk, req, calls>>

\* _should_cancel, line 433: the token read.
RunShouldCancelToken(r) ==
    /\ NoResponsePending
    /\ run[r].pc \in {"pj_cancel_token", "ch_cancel_token"}
    /\ run' = [run EXCEPT ![r] =
                  IF Get(mix_tokens, run[r].job_id) # Some(r)
                  THEN Raise(r, ExcCancelled, "can_read")
                  ELSE [@ EXCEPT !.pc = IF run[r].pc = "pj_cancel_token"
                                        THEN "pj_cache" ELSE "ch_sep"]]
    /\ UNCHANGED <<calc, maps, disk, req, calls>>

\* The whole-output cache entry of a fingerprint is being written: a
\* process_job call is inside shutil.copyfile(output_path, cache_target)
\* (tasks.py 312), which opens cache_target itself for writing; the path
\* exists and holds a part of the bytes.
CacheBeingWritten(settings_hash) ==
    \E w \in Tokens :
        /\ run[w].pc = "cache_storing"
        /\ build_settings_fingerprint(run[w].prompts, run[w].mode, run[w].preview) = settings_hash

\* Variant of the cache test that never finds an entry.
CacheHitNever(r) == FALSE

\* tasks.py 238: cache_target.exists(), for the fingerprint of the call.
CacheHit(r) == build_settings_fingerprint(run[r].prompts, run[r].mode, run[r].preview) \in cache

\* tasks.py 224-238: with a cache directory, hash the input and look the
\* whole output up in the cache.
RunCacheLookup(r) ==
    /\ NoResponsePending
    /\ run[r].pc = "pj_cache"
    /\ run' = [run EXCEPT ![r] =
                  IF ~run[r].cache_dir THEN [@ EXCEPT !.pc = "pj_load"]
                  ELSE IF run[r].job_id \notin job_files THEN Raise(r, ExcNoFile, "exc_check")
                  ELSE IF CacheHit(r) THEN [@ EXCEPT !.pc = "pj_copy"]
                  ELSE [@ EXCEPT !.pc = "pj_load"]]
    /\ UNCHANGED <<calc, maps, disk, req, calls>>

\* tasks.py 239-243: a hit: the output directory is made, the entry copied
\* to the output path (the bytes the path holds at that time), and
\* process_job returns.
RunCacheCopy(r) ==
    /\ NoResponsePending
    /\ run[r].pc = "pj_copy"
    /\ outputs' = Touch(outputs, r)
    /\ run' = [run EXCEPT ![r].pc = Returned(r)]
    /\ UNCHANGED <<calc, maps, cache, chunk_cache, req, calls>>

\* tasks.py 248-296: read the input; a preview is sliced and separated
\* whole, a full mix of the long recording goes to the chunked engine,
\* which first reports progress (0, total) (tasks.py 166-167).
RunLoadAudio(r) ==
    /\ NoResponsePending
    /\ run[r].pc = "pj_load"
    /\ run' = [run EXCEPT ![r] =
                  IF run[r].job_id \notin job_files THEN Raise(r, ExcNoFile, "exc_check")
                  ELSE IF run[r].preview THEN [@ EXCEPT !.pc = "sep"]
                  ELSE IF HasCallbacks(r) THEN [@ EXCEPT !.pc = "pg_check"]
                  ELSE [@ EXCEPT !.pc = "ch_sep"]]
    /\ UNCHANGED <<calc, maps, disk, req, calls>>

\* tasks.py 294-296: run_separation on the whole buffer, then progress (1, 1).
RunSeparate(r) ==
    /\ NoResponsePending
    /\ run[r].pc = "sep"
    /\ LET exc == run_separation(run[r].prompts) IN
       run' = [run EXCEPT ![r] =
                  IF exc = NoExc
                  THEN [@ EXCEPT !.pc = IF HasCallbacks(r) THEN "pg_check" ELSE "write_out",
                                 !.done = 1, !.invoked = @ + 1]
                  ELSE [Raise(r, exc, "exc_check") EXCEPT !.invoked = @ + 1]]
    /\ UNCHANGED <<calc, maps, disk, req, calls>>

\* The recording of j1 is cut into NumChunks ranges of ChunkSamples samples
\* each (no overlap): the range of a chunk.
ChunkSamples == 2
ChunkRange(chunk) == <<ChunkSamples * (chunk - 1), ChunkSamples * chunk>>

\* _chunk_cache_path, tasks.py 49-58: the key of a chunk cache entry is the
\* fingerprint of the call (the input is the upload of j1) and the range.
ChunkKey(r, chunk) ==
    <<build_settings_fingerprint(run[r].prompts, run[r].mode, run[r].preview),
      ChunkRange(chunk)[1], ChunkRange(chunk)[2]>>

\* The chunk cache entry of a key is being written: a call is inside
\* write_audio(chunk_path, ...) (tasks.py 184), which opens chunk_path
\* itself for writing; the path exists and holds a part of the file.
ChunkBeingWritten(key) ==
    \E w \in Tokens : run[w].pc = "ch_write" /\ ChunkKey(w, run[w].done + 1) = key

\* _load_cached_chunk, tasks.py 78-84: None without the file and for a
\* waveform that has not the length of the range. A file that is being
\* written has fewer samples than the range, or sf.read cannot open it yet
\* (audio_io.py 36) and raises.
_load_cached_chunk(key, expected_len) ==
    IF key \notin DOMAIN chunk_cache THEN {"missing"}
    ELSE IF ChunkBeingWritten(key) THEN {"short", "unreadable"}
    ELSE IF chunk_cache[key] # expected_len THEN {"short"}
    ELSE {"whole"}

\* tasks.py 168-184: one chunk: the cached waveform if there is one of the
\* length of the range, else the transform, and with a cache directory
\* write_audio opens the chunk cache file; without one, the rest of the
\* turn (tasks.py 185-198, see RunChunkWritten).
RunChunk(r) ==
    /\ NoResponsePending
    /\ run[r].pc = "ch_sep"
    /\ LET chunk == run[r].done + 1
           key == ChunkKey(r, chunk)
           chunk_len == ChunkRange(chunk)[2] - ChunkRange(chunk)[1]
           next == IF HasCallbacks(r) THEN "pg_check" ELSE AfterChunk(chunk)
           exc == run_separation(run[r].prompts)
       IN
       \E chunk_out \in IF run[r].cache_dir THEN _load_cached_chunk(key, chunk_len)
                         ELSE {"missing"} :
       IF chunk_out = "whole"
       THEN /\ run' = [run EXCEPT ![r].pc = next, ![r].done = chunk]
            /\ UNCHANGED chunk_cache
       ELSE IF chunk_out = "unreadable"
       THEN /\ run' = [run EXCEPT ![r] = Raise(r, ExcSndfile, "exc_check")]
            /\ UNCHANGED chunk_cache
       ELSE IF exc # NoExc
       THEN /\ run' = [run EXCEPT ![r] = [Raise(r, exc, "exc_check") EXCEPT !.invoked = @ + 1]]
            /\ UNCHANGED chunk_cache
       ELSE IF run[r].cache_dir
       THEN /\ run' = [run EXCEPT ![r].pc = "ch_write", ![r].invoked = @ + 1]
            /\ chunk_cache' = Put(chunk_cache, key, 0)
       ELSE IF EmptyOutput(run[r].prompts, run[r].mode)
       THEN /\ run' = [run EXCEPT ![r] = [Raise(r, ExcBroadcast, "exc_check") EXCEPT !.invoked = @ + 1]]
            /\ UNCHANGED chunk_cache
       ELSE /\ run' = [run EXCEPT ![r].pc = next, ![r].done = chunk, ![r].invoked = @ + 1]
            /\ UNCHANGED chunk_cache
    /\ UNCHANGED <<calc, maps, outputs, cache, req, calls>>

\* tasks.py 184-198: write_audio returns, the chunk cache file holds the
\* output of the transform (no sample for an empty output); the windowed
\* output is accumulated (an empty output does not broadcast against the
\* window); then progress (done, total).
RunChunkWritten(r) ==
    /\ NoResponsePending
    /\ run[r].pc = "ch_write"
    /\ LET chunk == run[r].done + 1
           key == ChunkKey(r, chunk)
           chunk_len == ChunkRange(chunk)[2] - ChunkRange(chunk)[1]
       IN
       IF EmptyOutput(run[r].prompts, run[r].mode)
       THEN /\ chunk_cache' = Put(chunk_cache, key, 0)
            /\ run' = [run EXCEPT ![r] = Raise(r, ExcBroadcast, "exc_check")]
       ELSE /\ chunk_cache' = Put(chunk_cache, key, chunk_len)
            /\ run' = [run EXCEPT ![r].pc = IF HasCallbacks(r) THEN "pg_check" ELSE AfterChunk(chunk),
                                  ![r].done = chunk]
    /\ UNCHANGED <<calc, maps, outputs, cache, req, calls>>

\* _progress, lines 415-421: dropped for a run that should not finalize, and
\* rate-limited (not the first report, not the last) once one was recorded.
RunProgressCheck(r) ==
    /\ NoResponsePending
    /\ run[r].pc = "pg_check"
    /\ \E rate_limited \in BOOLEAN :
        /\ rate_limited => (run[r].done < Total(r) /\ run[r].last_progress)
        /\ run' = [run EXCEPT ![r].pc =
                      IF ~_should_finalize(run[r].job_id, r) \/ rate_limited
                      THEN AfterProgress(r) ELSE "pg_read"]
    /\ UNCHANGED <<calc, maps, disk, req, calls>>

\* _update_mix_progress, lines 192-195: the state is read again, and
\* state.error_code is read from it.
RunProgressRead(r) ==
    /\ NoResponsePending
    /\ run[r].pc = "pg_read"
    /\ LET state == Get(mix_states, run[r].job_id) IN
       run' = [run EXCEPT ![r] =
                  IF state # None /\ ~HasAttr(Val(state), "error_code")
                  THEN Raise(r, ExcAttr, "exc_check")
                  ELSE [@ EXCEPT !.pc = "pg_set", !.state = state]]
    /\ UNCHANGED <<calc, maps, disk, req, calls>>

\* eta = elapsed / done * (total - done), in units of the mean time a chunk
\* has taken so far; None before the first chunk.
Eta(done, total) == IF done > 0 THEN Some(total - done) ELSE None

\* The state _update_mix_progress writes, lines 196-208.
ProgressState(r, state) ==
    MixResponse("RUNNING",
                IF state # None THEN Val(state).output_url ELSE None,
                IF state # None THEN Val(state).detail ELSE None,
                None,
                Some(Frac(run[r].done, Total(r))),
                Some(run[r].done), Some(Total(r)),
                Eta(run[r].done, Total(r)))

\* _update_mix_progress, lines 197-208, and line 425.
RunProgressSet(r) ==
    /\ NoResponsePending
    /\ run[r].pc = "pg_set"
    /\ _set_mix_state(run[r].job_id, ProgressState(r, run[r].state), Some(r))
    /\ run' = [run EXCEPT ![r].pc = AfterProgress(r), ![r].last_progress = TRUE,
                          ![r].state = None]
    /\ UNCHANGED <<calc, jobs, job_store, job_files, disk, req, calls>>

\* tasks.py 298-301: the output file is written.
RunWriteOutput(r) ==
    /\ NoResponsePending
    /\ run[r].pc = "write_out"
    /\ outputs' = Touch(outputs, r)
    /\ run' = [run EXCEPT ![r].pc = IF run[r].cache_dir THEN "cache_store" ELSE Returned(r)]
    /\ UNCHANGED <<calc, maps, cache, chunk_cache, req, calls>>

\* tasks.py 308-312: shutil.copyfile(output_path, cache_target) opens the
\* output file and the cache entry; the entry is at its path from then on.
RunCacheStore(r) ==
    /\ NoResponsePending
    /\ run[r].pc = "cache_store"
    /\ IF Exists(outputs, r)
       THEN /\ cache' = cache \cup {build_settings_fingerprint(run[r].prompts, run[r].mode, run[r].preview)}
            /\ run' = [run EXCEPT ![r].pc = "cache_storing"]
       ELSE /\ run' = [run EXCEPT ![r] = Raise(r, ExcNoFile, "exc_check")]
            /\ UNCHANGED cache
    /\ UNCHANGED <<calc, maps, outputs, chunk_cache, req, calls>>

\* tasks.py 312-313: the copy is complete, process_job returns.
RunCacheStored(r) ==
    /\ NoResponsePending
    /\ run[r].pc = "cache_storing"
    /\ run' = [run EXCEPT ![r].pc = Returned(r)]
    /\ UNCHANGED <<calc, maps, disk, req, calls>>

\* ----------------------------------------------- _run_mix: the finalizes
Running(r) == Val(run[r].running)

\* Lines 450-451 (success) and 502-503 (failure): the should-finalize guard.
RunFinalizeCheck(r) ==
    /\ NoResponsePending
    /\ run[r].pc \in {"fin_check", "exc_check"}
    /\ run' = [run EXCEPT ![r] =
                  IF ~_should_finalize(run[r].job_id, r) THEN Finished(r)
                  ELSE IF run[r].pc = "fin_check" THEN [@ EXCEPT !.pc = "fin_set_job"]
                  ELSE [@ EXCEPT !.pc = "fail_set_job"]]
    /\ UNCHANGED <<calc, maps, disk, req, calls>>

\* Lines 452-465: the running copy, DONE, with the summary appended.
DoneJob(r) ==
    _append_mix_history([Running(r) EXCEPT !.status = "DONE"],
                        JobMixSummary(IF run[r].preview THEN "preview" ELSE "full", r))

\* Line 466: _set_job(done), the in-memory write.
RunFinalizeSetJob(r) ==
    /\ NoResponsePending
    /\ run[r].pc = "fin_set_job"
    /\ _set_job(run[r].job_id, DoneJob(r))
    /\ run' = [run EXCEPT ![r].pc = "fin_persist"]
    /\ UNCHANGED <<calc, job_store, job_files, mix_states, mix_tokens, disk, req, calls>>

\* Line 467: state = _get_mix_state(job_id).
RunFinalizeReadState(r) ==
    /\ NoResponsePending
    /\ run[r].pc = "fin_read"
    /\ run' = [run EXCEPT ![r].pc = "fin_set_state",
                          ![r].state = Get(mix_states, run[r].job_id)]
    /\ UNCHANGED <<calc, maps, disk, req, calls>>

\* Variant of the DONE state with eta 0 whatever was recorded.
DoneStateEtaZero(r, state) ==
    MixResponse("DONE", Some(r), None, None, Some(One),
                IF state # None THEN Val(state).chunks_done ELSE None,
                IF state # None THEN Val(state).chunks_total ELSE None,
                Some(0))

\* Lines 470-479: the DONE state; eta 0 only with a chunk total recorded.
DoneState(r, state) ==
    MixResponse("DONE", Some(r), None, None, Some(One),
                IF state # None THEN Val(state).chunks_done ELSE None,
                IF state # None THEN Val(state).chunks_total ELSE None,
                IF state # None /\ Val(state).chunks_total \notin {None, Some(0)}
                THEN Some(0) ELSE None)

RunFinalizeSetState(r) ==
    /\ NoResponsePending
    /\ run[r].pc = "fin_set_state"
    /\ _set_mix_state(run[r].job_id, DoneState(r, run[r].state), Some(r))
    /\ run' = [run EXCEPT ![r] = Finished(r)]
    /\ UNCHANGED <<calc, jobs, job_store, job_files, disk, req, calls>>

\* Lines 480-483, except CancelledError: nothing to do without a state or
\* with a CANCELLED one.
RunCancelledRead(r) ==
    /\ NoResponsePending
    /\ run[r].pc = "can_read"
    /\ LET state == Get(mix_states, run[r].job_id) IN
       run' = [run EXCEPT ![r] =
                  IF state = None \/ Val(state).status = "CANCELLED"
                  THEN Finished(r)
                  ELSE [@ EXCEPT !.pc = "can_set_job", !.state = state]]
    /\ UNCHANGED <<calc, maps, disk, req, calls>>

\* Lines 487-489: the running copy, CANCELLED.
CancelledJob(r) == [Running(r) EXCEPT !.status = "CANCELLED"]

\* Lines 486-490: _set_job of that copy, the in-memory write.
RunCancelledSetJob(r) ==
    /\ NoResponsePending
    /\ run[r].pc = "can_set_job"
    /\ _set_job(run[r].job_id, CancelledJob(r))
    /\ run' = [run EXCEPT ![r].pc = "can_persist"]
    /\ UNCHANGED <<calc, job_store, job_files, mix_states, mix_tokens, disk, req, calls>>

\* Lines 491-500: the CANCELLED state, with this run's token.
RunCancelledSetState(r) ==
    /\ NoResponsePending
    /\ run[r].pc = "can_set_state"
    /\ _set_mix_state(run[r].job_id, CancelledFrom(Val(run[r].state)), Some(r))
    /\ run' = [run EXCEPT ![r] = Finished(r)]
    /\ UNCHANGED <<calc, jobs, job_store, job_files, disk, req, calls>>

\* Lines 505-520: the running copy, FAILED, with the classified code and
\* detail (copy(update=...) keeps the undeclared error_code on the object).
FailedJob(r) ==
    [Running(r) EXCEPT !.status = "FAILED",
                       !.detail = Some(classify_error(run[r].exc)[2]),
                       !.error_code = Some(classify_error(run[r].exc)[1])]

\* Line 521: _set_job(failed), the in-memory write.
RunFailureSetJob(r) ==
    /\ NoResponsePending
    /\ run[r].pc = "fail_set_job"
    /\ _set_job(run[r].job_id, FailedJob(r))
    /\ run' = [run EXCEPT ![r].pc = "fail_persist"]
    /\ UNCHANGED <<calc, job_store, job_files, mix_states, mix_tokens, disk, req, calls>>

\* Line 84 within the _set_job calls of _run_mix (466, 486, 521): the record
\* the thread holds is persisted.
RunPersistJob(r) ==
    /\ NoResponsePending
    /\ run[r].pc \in {"fin_persist", "can_persist", "fail_persist"}
    /\ _persist_job(run[r].job_id,
                    IF run[r].pc = "fin_persist" THEN DoneJob(r)
                    ELSE IF run[r].pc = "can_persist" THEN CancelledJob(r)
                    ELSE FailedJob(r))
    /\ run' = [run EXCEPT ![r].pc =
                  IF run[r].pc = "fin_persist" THEN "fin_read"
                  ELSE IF run[r].pc = "can_persist" THEN "can_set_state"
                  ELSE "fail_set_state"]
    /\ UNCHANGED <<calc, jobs, job_files, mix_states, mix_tokens, disk, req, calls>>

\* Lines 522-528: the FAILED state.
FailedState(r) ==
    MixResponse("FAILED", None, FailedJob(r).detail, FailedJob(r).error_code,
                None, None, None, None)

\* Variant of the last step of the failure path that ends the thread
\* without writing the state.
RunFailureSkipState(r) ==
    /\ NoResponsePending
    /\ run[r].pc = "fail_set_state"
    /\ run' = [run EXCEPT ![r] = Finished(r)]
    /\ UNCHANGED <<calc, maps, disk, req, calls>>

\* Lines 522-528: _set_mix_state of the FAILED state with the run's token.
RunFailureSetState(r) ==
    /\ NoResponsePending
    /\ run[r].pc = "fail_set_state"
    /\ _set_mix_state(run[r].job_id, FailedState(r), Some(r))
    /\ run' = [run EXCEPT ![r] = Finished(r)]
    /\ UNCHANGED <<calc, jobs, job_store, job_files, disk, req, calls>>

\* ------------------------------------------------------- specification
\* A step of the mix thread of run r. RunProgressSet and RunChunk are left
\* to the specification with delete_job: line 195 raises whenever a state
\* is there, and without delete_job one always is. RunWriteOutput and
\* RunCacheStore are left to the specification of direct calls: a request
\* has prompts, and with prompts run_separation raises.
RunMix(r) ==
    \/ RunShouldCancelState(r) \/ RunShouldCancelToken(r)
    \/ RunCacheLookup(r) \/ RunCacheCopy(r)
    \/ RunLoadAudio(r) \/ RunSeparate(r)
    \/ RunProgressCheck(r) \/ RunProgressRead(r)
    \/ RunFinalizeCheck(r) \/ RunFinalizeSetJob(r)
    \/ RunFinalizeReadState(r) \/ RunFinalizeSetState(r)
    \/ RunCancelledRead(r) \/ RunCancelledSetJob(r) \/ RunCancelledSetState(r)
    \/ RunFailureSetJob(r) \/ RunFailureSetState(r)
    \/ RunPersistJob(r)

\* mix_job and cancel_mix requests served one after another by one handler
\* thread, while the mix threads they started run.
Next ==
    \/ Return(1)
    \/ MixJobValidate(1) \/ MixJobExisting(1) \/ MixJobSetJob(1) \/ ReqPersistJob(1)
    \/ MixJobSetState(1) \/ MixJobReturn(1)
    \/ CancelMixRead(1) \/ CancelMixGetJob(1) \/ CancelMixSetJob(1) \/ CancelMixSetState(1)
    \/ \E r \in Tokens : RunMix(r)

Spec == Init /\ [][Next]_vars

\* The steps by which the handler thread goes on with a request it has
\* begun to serve.
ServeOn(q) ==
    \/ Return(q)
    \/ MixJobExisting(q) \/ MixJobSetJob(q) \/ ReqPersistJob(q)
    \/ MixJobSetState(q) \/ MixJobReturn(q)
    \/ CancelMixGetJob(q) \/ CancelMixSetJob(q) \/ CancelMixSetState(q)

\* The job has no earlier mix on record when the service starts.
InitLive ==
    /\ Init
    /\ outputs = << >>

\* The same, with every thread scheduled again and again: a handler thread
\* goes on with its request and a mix thread with its run (the engine calls
\* are steps that return or raise). Requests arrive or not. A mix thread is
\* ready to run at all times; its steps are only ordered after the sending
\* of a pending response (NoResponsePending), so the scheduling of a thread
\* that is ready is strong fairness here. The job has no earlier mix on
\* record: the history of a Job plays no part in how a run ends.
SpecLive ==
    /\ InitLive
    /\ [][Next]_vars
    /\ WF_vars(ServeOn(1))
    /\ \A r \in Tokens : SF_vars(RunMix(r))

\* mix_job requests served by MaxReqs handler threads at once.
NextStarts ==
    \/ \E q \in Reqs :
        \/ Return(q)
        \/ MixJobValidate(q) \/ MixJobExisting(q) \/ MixJobSetJob(q) \/ ReqPersistJob(q)
        \/ MixJobSetState(q) \/ MixJobReturn(q)
    \/ \E r \in Tokens : RunMix(r)

SpecStarts == Init /\ [][NextStarts]_vars

\* mix_job, delete_job and get_mix_status requests served by one handler
\* thread.
NextDelete ==
    \/ Return(1)
    \/ MixJobValidate(1) \/ MixJobExisting(1) \/ MixJobSetJob(1) \/ ReqPersistJob(1)
    \/ MixJobSetState(1) \/ MixJobReturn(1)
    \/ DeleteJobPop(1) \/ DeleteJobStore(1) \/ DeleteJobFiles(1) \/ DeleteJobMix(1)
    \/ GetMixStatusRead(1) \/ GetMixStatusLatest(1)
    \/ \E r \in Tokens : RunMix(r) \/ RunChunk(r) \/ RunProgressSet(r)

SpecDelete == Init /\ [][NextDelete]_vars

\* The jobs at the time of a cleanup: as in Started, with the earlier full
\* mix of j1 made either before the last restart (no state is left of it)
\* or since (its DONE state and token are in the maps).
InitCleanup ==
    /\ \E earlier \in BOOLEAN, since \in BOOLEAN :
        /\ since => earlier
        /\ jobs = [j \in {"j1", "j2"} |->
                    IF j = "j2"
                    THEN Job("FAILED", Some(<<"ffmpeg", "not", "found">>), Some("FFMPEG_MISSING"))
                    ELSE IF earlier THEN _append_mix_history(Job("DONE", None, None), EarlierMix)
                    ELSE Job("DONE", None, None)]
        /\ outputs = IF earlier THEN <<0>> ELSE << >>
        /\ mix_states = [j \in IF since THEN {"j1"} ELSE {} |-> DoneState(0, None)]
        /\ mix_tokens = [j \in IF since THEN {"j1"} ELSE {} |-> 0]
    /\ job_store = [j \in {"j1", "j2"} |-> _job_payload(jobs[j])]
    /\ job_files = {"j1"}
    /\ cache \in {{}, {build_settings_fingerprint(MaxPrompts, "keep", TRUE)}}
    /\ chunk_cache = << >>
    /\ req = [q \in Reqs |-> IdleReq]
    /\ run = [t \in Tokens |-> NoRun]
    /\ minted = 0
    /\ cancels = 0
    /\ deletes = 0
    /\ calc = NoCalc

\* A handler thread that serves cleanups, one after the other.
NextCleanup ==
    \/ Return(1)
    \/ CleanupJobsSorted(1) \/ CleanupPop(1) \/ CleanupUnlink(1) \/ CleanupFiles(1)
    \/ CleanupMix(1) \/ CleanupList(1) \/ CleanupPurge(1) \/ CleanupSetJob(1)
    \/ CleanupPersist(1) \/ CleanupCache(1) \/ CleanupReturn(1)

SpecCleanup == InitCleanup /\ [][NextCleanup]_vars

\* process_job called directly, the calls running side by side: the caller
\* picks the prompts, the mode, the preview window and whether there is a
\* cache directory; the input is the upload of j1, the output path is named
\* by the number of the call.
ProcessJobCall(r) ==
    /\ run[r].pc = "none"
    /\ r = minted + 1
    /\ minted' = r
    /\ \E prompts \in 0..MaxPrompts, mode \in Modes, preview \in BOOLEAN, cache_dir \in BOOLEAN :
        run' = [run EXCEPT ![r] =
                   [NoRun EXCEPT !.pc = "pj_cache", !.caller = "direct", !.job_id = "j1",
                                 !.prompts = prompts, !.mode = mode, !.preview = preview,
                                 !.cache_dir = cache_dir]]
    /\ UNCHANGED <<calc, maps, disk, req, cancels, deletes>>

NextWorker ==
    \E r \in Tokens :
        \/ ProcessJobCall(r) \/ RunCacheLookup(r) \/ RunCacheCopy(r)
        \/ RunLoadAudio(r) \/ RunSeparate(r)
        \/ RunChunk(r) \/ RunChunkWritten(r)
        \/ RunWriteOutput(r) \/ RunCacheStore(r) \/ RunCacheStored(r)

SpecWorker == Init /\ [][NextWorker]_vars

\* ------------------------------------------------ the chunked engine
\* core/mixing.py peak_normalize (target_peak 0.95) and limiter (threshold
\* 0.99) on a buffer of non-negative samples.
Peak(audio) ==
    IF audio = << >> THEN Zero
    ELSE CHOOSE x \in {FracAbs(audio[i]) : i \in 1..Len(audio)} :
            \A i \in 1..Len(audio) : FracLe(FracAbs(audio[i]), x)

\* Variant of peak_normalize that scales every buffer to the target peak.
peak_normalize_to_target(audio, target_peak) ==
    IF Peak(audio) = Zero THEN audio
    ELSE LET scale == FracDiv(target_peak, Peak(audio))
         IN  [i \in 1..Len(audio) |-> FracMul(audio[i], scale)]

\* core/mixing.py 22-27.
peak_normalize(audio, target_peak) ==
    IF Peak(audio) = Zero THEN audio
    ELSE LET scale == FracMin(One, FracDiv(target_peak, Peak(audio)))
         IN  [i \in 1..Len(audio) |-> FracMul(audio[i], scale)]

\* The default of target_peak, 0.95.
DefaultTargetPeak == Frac(19, 20)

\* core/mixing.py 30-31: np.clip(audio, -threshold, threshold), threshold 0.99.
limiter(audio) ==
    [i \in 1..Len(audio) |-> FracMax(FracNeg(Frac(99, 100)), FracMin(audio[i], Frac(99, 100)))]

\* The buffer of n samples the engine is given: sample i is i / (2 MaxLen).
Audio(n) == [i \in 1..n |-> Frac(i, 2 * MaxLen)]

\* audio[start:end], zero-based and half-open as in the source.
Slice(audio, start, end) == SubSeq(audio, start + 1, end)

\* The output of run_separation without prompts (tasks.py 124-137).
Separated(audio, mode) ==
    limiter(peak_normalize(IF mode = "keep" THEN << >> ELSE audio, DefaultTargetPeak))

\* Variant of the step that leaves a gap after every chunk.
ChunkStepGap(chunk_samples, overlap_samples) == chunk_samples + 1

\* tasks.py 67: step = max(1, chunk_samples - overlap_samples).
ChunkStep(chunk_samples, overlap_samples) == Max(1, chunk_samples - overlap_samples)

\* Variant of the clamp that takes the overlap as asked for.
ClampOverlapNone(overlap_samples, chunk_samples) == overlap_samples

\* tasks.py 160: max(0, min(overlap_samples, chunk_samples // 2)).
ClampOverlap(overlap_samples, chunk_samples) ==
    Max(0, Min(overlap_samples, chunk_samples \div 2))

\* Variant of the fade-in that starts above 0: (k + 1) / num.
FadeInOpen(num, k) == Frac(k + 1, num)

\* np.linspace(0.0, 1.0, num)[k] and np.linspace(1.0, 0.0, num)[k], k from 0.
FadeIn(num, k) == IF num = 1 THEN Zero ELSE Frac(k, num - 1)
FadeOut(num, k) == IF num = 1 THEN One ELSE Frac(num - 1 - k, num - 1)

\* tasks.py 185-194: the window of the range [start, end).
Window(start, end, total_len, overlap_samples) ==
    LET n == end - start
        fade_len == Min(overlap_samples, n)
    IN  [i \in 1..n |->
            FracMul(IF start > 0 /\ overlap_samples > 0 /\ i <= fade_len
                    THEN FadeIn(fade_len, i - 1) ELSE One,
                    IF end < total_len /\ overlap_samples > 0 /\ i > n - fade_len
                    THEN FadeOut(fade_len, i - 1 - (n - fade_len)) ELSE One)]

\* A call of _build_chunk_ranges or of run_separation_chunked on its own
\* (no cache directory, no callbacks): its arguments and its locals.
ChunkCall(op, total_len, chunk_samples, overlap_samples, prompts, mode) ==
    [op |-> op, pc |-> "call", total_len |-> total_len, chunk_samples |-> chunk_samples,
     overlap_samples |-> overlap_samples, prompts |-> prompts, mode |-> mode,
     start |-> 0, ranges |-> << >>, done |-> 0, invoked |-> << >>,
     output |-> << >>, weight |-> << >>, mixed |-> << >>, exc |-> NoExc]

ChunkCalls ==
    {ChunkCall("_build_chunk_ranges", t, c, o, 0, "keep") :
        t \in 0..MaxLen, c \in 0..MaxChunkSamples, o \in 0..MaxOverlapSamples}
    \cup
    {ChunkCall("run_separation_chunked", t, c, o, p, m) :
        t \in 1..MaxLen, c \in 0..MaxChunkSamples, o \in 0..MaxOverlapSamples,
        p \in 0..MaxPrompts, m \in Modes}

InitChunks == Started /\ calc \in ChunkCalls

others == <<jobs, job_store, job_files, mix_states, mix_tokens, outputs, cache, chunk_cache, req, run, minted, cancels, deletes>>

\* tasks.py 155-162: a buffer of at most one chunk goes to run_separation
\* whole; else the overlap is clamped, the accumulators are zeroed and the
\* ranges are built.
ChunkedEnter ==
    /\ calc.op = "run_separation_chunked" /\ calc.pc = "call"
    /\ calc' = IF calc.chunk_samples <= 0 \/ calc.total_len <= calc.chunk_samples
               THEN [calc EXCEPT !.pc = "whole"]
               ELSE [calc EXCEPT !.pc = "build",
                                 !.overlap_samples = ClampOverlap(@, calc.chunk_samples),
                                 !.output = [i \in 1..calc.total_len |-> Zero],
                                 !.weight = [i \in 1..calc.total_len |-> Zero]]
    /\ UNCHANGED others

\* tasks.py 158: run_separation on the whole buffer.
ChunkedWhole ==
    /\ calc.pc = "whole"
    /\ LET exc == run_separation(calc.prompts) IN
       calc' = IF exc # NoExc
               THEN [calc EXCEPT !.pc = "raised", !.exc = exc,
                                 !.invoked = Append(@, <<0, calc.total_len>>)]
               ELSE [calc EXCEPT !.pc = "returned",
                                 !.invoked = Append(@, <<0, calc.total_len>>),
                                 !.output = Separated(Audio(calc.total_len), calc.mode)]
    /\ UNCHANGED others

\* tasks.py 64-68: no range for an empty buffer; else the loop starts at 0.
BuildRangesEnter ==
    /\ \/ calc.op = "_build_chunk_ranges" /\ calc.pc = "call"
       \/ calc.pc = "build"
    /\ calc' = IF calc.total_len <= 0
               THEN [calc EXCEPT !.pc = "built"]
               ELSE [calc EXCEPT !.pc = "loop", !.start = 0]
    /\ UNCHANGED others

\* tasks.py 69-74: one turn of the loop.
BuildRangesLoop ==
    /\ calc.pc = "loop"
    /\ calc.start < calc.total_len
    /\ LET end == Min(calc.start + calc.chunk_samples, calc.total_len) IN
       calc' = IF end = calc.total_len
               THEN [calc EXCEPT !.pc = "built", !.ranges = Append(@, <<calc.start, end>>)]
               ELSE [calc EXCEPT !.ranges = Append(@, <<calc.start, end>>),
                                 !.start = @ + ChunkStep(calc.chunk_samples, calc.overlap_samples)]
    /\ UNCHANGED others

\* tasks.py 168-198: one chunk: run_separation on audio[start:end], the
\* window, the overlap-add into output and weight.
ChunkedChunk ==
    /\ calc.op = "run_separation_chunked" /\ calc.pc = "built"
    /\ calc.done < Len(calc.ranges)
    /\ LET start == calc.ranges[calc.done + 1][1]
           end == calc.ranges[calc.done + 1][2]
           exc == run_separation(calc.prompts)
           chunk_out == Separated(Slice(Audio(calc.total_len), start, end), calc.mode)
           window == Window(start, end, calc.total_len, calc.overlap_samples)
       IN
       calc' = IF exc # NoExc
               THEN [calc EXCEPT !.pc = "raised", !.exc = exc,
                                 !.invoked = Append(@, <<start, end>>)]
               ELSE IF Len(chunk_out) # Len(window)
               THEN [calc EXCEPT !.pc = "raised", !.exc = ExcBroadcast,
                                 !.invoked = Append(@, <<start, end>>)]
               ELSE [calc EXCEPT
                        !.invoked = Append(@, <<start, end>>),
                        !.done = @ + 1,
                        !.output = [i \in 1..calc.total_len |->
                                       IF start < i /\ i <= end
                                       THEN FracAdd(@[i], FracMul(chunk_out[i - start], window[i - start]))
                                       ELSE @[i]],
                        !.weight = [i \in 1..calc.total_len |->
                                       IF start < i /\ i <= end
                                       THEN FracAdd(@[i], window[i - start])
                                       ELSE @[i]]]
    /\ UNCHANGED others

\* tasks.py 199-201: output / weight where weight > 0, then the limiter of
\* the peak-normalized output; mixed keeps the output before normalization.
ChunkedFinish ==
    /\ calc.op = "run_separation_chunked" /\ calc.pc = "built"
    /\ calc.done = Len(calc.ranges)
    /\ LET mixed == [i \in 1..calc.total_len |->
                        IF calc.weight[i] # Zero THEN FracDiv(calc.output[i], calc.weight[i])
                        ELSE calc.output[i]]
       IN  calc' = [calc EXCEPT !.pc = "returned", !.mixed = mixed,
                                !.output = limiter(peak_normalize(mixed, DefaultTargetPeak))]
    /\ UNCHANGED others

NextChunks ==
    \/ ChunkedEnter \/ ChunkedWhole \/ BuildRangesEnter \/ BuildRangesLoop
    \/ ChunkedChunk \/ ChunkedFinish

\* A call of _build_chunk_ranges runs on once entered: its body is straight
\* code that waits for nothing.
SpecChunks ==
    InitChunks /\ [][NextChunks]_vars /\ WF_vars(BuildRangesEnter \/ BuildRangesLoop)

\* --------------------------------------------- the settings fingerprint
\* Python numbers in tenths, with their type: json.dumps writes an int and a
\* float of the same value differently.
PyInt(n) == [type |-> "int", tenths |-> 10 * n]
PyFloat(tenths) == [type |-> "float", tenths |-> tenths]
PyNone == [type |-> "NoneType", tenths |-> 0]

\* Python's ==: None equals only None, numbers compare by value.
PyEq(x, y) ==
    IF x.type = "NoneType" \/ y.type = "NoneType"
    THEN x.type = y.type
    ELSE x.tenths = y.tenths

\* core/config.py 14 and 20 (PREVIEW_SECONDS not set), tasks.py 37-38
\* (defaults of SAM_AUDIO_CHUNK_SECONDS and SAM_AUDIO_CHUNK_OVERLAP).
DEFAULT_SAMPLE_RATE == PyInt(16000)
settings_preview_seconds == PyInt(10)
DefaultChunkSeconds == PyFloat(300)
DefaultChunkOverlap == PyFloat(2)

\* The bodies of POST /jobs/{id}/mix that pass validation, with the value of
\* SAM_AUDIO_CHUNK_SECONDS at the time of the request.
MixRequests ==
    [prompts : {<<"a">>, <<"a", "b">>, <<"b", "a">>},
     gains : {<<PyFloat(10)>>, <<PyFloat(10), PyFloat(5)>>, <<PyFloat(5), PyFloat(10)>>},
     mode : Modes,
     preview : BOOLEAN,
     preview_seconds : {PyNone, PyFloat(100), PyFloat(50)},
     preview_start : {PyNone, PyFloat(20)},
     chunk_env : {PyNone, PyFloat(200)}]

\* routes_jobs.py 357-369 and the fields a request without preview leaves out.
ValidMixRequest(r) ==
    /\ Len(r.prompts) = Len(r.gains)
    /\ ~r.preview => r.preview_seconds = PyNone /\ r.preview_start = PyNone

\* tasks.py 36-46: _resolve_chunk_settings.
_resolve_chunk_settings(preview_seconds, chunk_env) ==
    LET chunk_seconds == IF chunk_env = PyNone THEN DefaultChunkSeconds ELSE chunk_env
        overlap_seconds == DefaultChunkOverlap
    IN  IF preview_seconds # PyNone /\ preview_seconds.tenths > 0
        THEN <<PyFloat(0), PyFloat(0)>>
        ELSE IF chunk_seconds.tenths <= 0
        THEN <<PyFloat(0), PyFloat(0)>>
        ELSE IF overlap_seconds.tenths >= chunk_seconds.tenths
        THEN <<chunk_seconds, PyFloat(chunk_seconds.tenths \div 2)>>
        ELSE <<chunk_seconds, overlap_seconds>>

\* routes_jobs.py 371-380 and tasks.py 217-234: the arguments mix_job and
\* process_job hand to build_settings_fingerprint for a request.
FingerprintArgs(r) ==
    LET preview_seconds ==
            IF ~r.preview THEN PyNone
            ELSE IF r.preview_seconds # PyNone THEN r.preview_seconds
            ELSE settings_preview_seconds
        preview_start ==
            IF r.preview /\ r.preview_start # PyNone THEN r.preview_start ELSE PyFloat(0)
        chunk == _resolve_chunk_settings(preview_seconds, r.chunk_env)
    IN  [prompts |-> r.prompts, gains |-> r.gains, mode |-> r.mode,
         target_sr |-> DEFAULT_SAMPLE_RATE,
         preview_seconds |-> preview_seconds, preview_start |-> preview_start,
         chunk_seconds |-> chunk[1], chunk_overlap |-> chunk[2]]

\* json.dumps of the values a settings object holds, as a sequence of
\* characters and string bodies.
DigitChars == <<"0", "1", "2", "3", "4", "5", "6", "7", "8", "9">>

RECURSIVE Digits(_)
Digits(n) ==
    IF n < 10 THEN <<DigitChars[n + 1]>>
    ELSE Digits(n \div 10) \o <<DigitChars[(n % 10) + 1]>>

JsonNumber(x) ==
    IF x.type = "NoneType" THEN <<"null">>
    ELSE IF x.type = "int" THEN Digits(x.tenths \div 10)
    ELSE Digits(x.tenths \div 10) \o <<".">> \o Digits(x.tenths % 10)

JsonString(str) == <<"\"", str, "\"">>

RECURSIVE JsonItems(_)
JsonItems(items) ==
    IF items = << >> THEN << >>
    ELSE IF Len(items) = 1 THEN items[1]
    ELSE items[1] \o <<",">> \o JsonItems(Tail(items))

JsonList(items) == <<"[">> \o JsonItems(items) \o <<"]">>

\* tasks.py 97-106: the settings dict, its items in the order of the literal.
SettingsDict(a) ==
    << <<"gains", JsonList([i \in 1..Len(a.gains) |-> JsonNumber(a.gains[i])])>>,
       <<"mode", JsonString(a.mode)>>,
       <<"prompts", JsonList([i \in 1..Len(a.prompts) |-> JsonString(a.prompts[i])])>>,
       <<"preview_seconds", JsonNumber(a.preview_seconds)>>,
       <<"preview_start", JsonNumber(a.preview_start)>>,
       <<"target_sr", JsonNumber(a.target_sr)>>,
       <<"chunk_seconds", JsonNumber(a.chunk_seconds)>>,
       <<"chunk_overlap", JsonNumber(a.chunk_overlap)>> >>

\* The same dict built in the opposite order.
Reversed(dict) == [i \in 1..Len(dict) |-> dict[Len(dict) + 1 - i]]

\* sorted() of the eight keys.
SortedKeys ==
    <<"chunk_overlap", "chunk_seconds", "gains", "mode",
      "preview_seconds", "preview_start", "prompts", "target_sr">>

\* hash_cache.py 18: json.dumps(settings, sort_keys=True, separators=(",", ":")),
\* the payload whose sha256 is the settings hash.
fingerprint_settings(settings) ==
    LET item(key) == CHOOSE i \in 1..Len(settings) : settings[i][1] = key
        keys == SelectSeq(SortedKeys, LAMBDA key : \E i \in 1..Len(settings) : settings[i][1] = key)
    IN  <<"{">> \o JsonItems([k \in 1..Len(keys) |->
                     JsonString(keys[k]) \o <<":">> \o settings[item(keys[k])][2]]) \o <<"}">>

\* Two requests and the order in which the settings object of the second is
\* built.
FingerprintCalls ==
    {[op |-> "build_settings_fingerprint", pc |-> "call", requests |-> <<a, b>>,
      order |-> order, args |-> << >>, settings |-> << >>, payload |-> << >>] :
        a \in {r \in MixRequests : ValidMixRequest(r)},
        b \in {r \in MixRequests : ValidMixRequest(r)},
        order \in {"literal", "reversed"}}

InitFingerprint == Started /\ calc \in FingerprintCalls

\* routes_jobs.py 371-380, tasks.py 217-234: the arguments are resolved.
FingerprintResolve ==
    /\ calc.op = "build_settings_fingerprint" /\ calc.pc = "call"
    /\ calc' = [calc EXCEPT !.pc = "resolved",
                            !.args = [i \in 1..2 |-> FingerprintArgs(calc.requests[i])]]
    /\ UNCHANGED others

\* tasks.py 97-106: the settings objects are built.
FingerprintBuild ==
    /\ calc.op = "build_settings_fingerprint" /\ calc.pc = "resolved"
    /\ calc' = [calc EXCEPT !.pc = "built",
                            !.settings = <<SettingsDict(calc.args[1]),
                                           IF calc.order = "reversed"
                                           THEN Reversed(SettingsDict(calc.args[2]))
                                           ELSE SettingsDict(calc.args[2])>>]
    /\ UNCHANGED others

\* tasks.py 107, hash_cache.py 17-19: the payloads are written.
FingerprintDump ==
    /\ calc.op = "build_settings_fingerprint" /\ calc.pc = "built"
    /\ calc' = [calc EXCEPT !.pc = "dumped",
                            !.payload = [i \in 1..2 |-> fingerprint_settings(calc.settings[i])]]
    /\ UNCHANGED others

NextFingerprint == FingerprintResolve \/ FingerprintBuild \/ FingerprintDump

SpecFingerprint == InitFingerprint /\ [][NextFingerprint]_vars

\* ------------------------------------------- peak_normalize on its own

\* The sample values of the buffers: silence, quiet and loud samples of
\* either sign, and samples beyond full scale such as apply_gain produces.
Samples ==
    {Frac(0, 1), Frac(1, 5), Frac(1, 2), Frac(1, 1), Frac(6, 5),
     FracNeg(Frac(1, 2)), FracNeg(Frac(6, 5))}

\* The target peaks of the calls: the default and the one of test_mixing.py.
TargetPeaks == {Frac(19, 20), Frac(4, 5)}

RECURSIVE Buffers(_)
Buffers(n) ==
    IF n = 0 THEN {<< >>}
    ELSE Buffers(n - 1) \cup {Append(b, x) : b \in {c \in Buffers(n - 1) : Len(c) = n - 1},
                                              x \in Samples}

NormalizeCalls ==
    {[op |-> "peak_normalize", pc |-> "call", audio |-> audio, target_peak |-> target_peak,
      peak |-> Zero, output |-> << >>] :
        audio \in Buffers(MaxSamples), target_peak \in TargetPeaks}

InitNormalize == Started /\ calc \in NormalizeCalls

\* core/mixing.py 23: the peak, 0.0 for an empty buffer.
NormalizePeak ==
    /\ calc.op = "peak_normalize" /\ calc.pc = "call"
    /\ calc' = [calc EXCEPT !.pc = "peak", !.peak = Peak(calc.audio)]
    /\ UNCHANGED others

\* core/mixing.py 24-27: the buffer itself or the buffer scaled.
NormalizeReturn ==
    /\ calc.op = "peak_normalize" /\ calc.pc = "peak"
    /\ calc' = [calc EXCEPT !.pc = "returned",
                            !.output = peak_normalize(calc.audio, calc.target_peak)]
    /\ UNCHANGED others

NextNormalize == NormalizePeak \/ NormalizeReturn

SpecNormalize == InitNormalize /\ [][NextNormalize]_vars

\* ------------------------------------- worker/models/sam_audio.py
\* MODEL_SAM_AUDIO_ID, read at every call (line 325): the one model of the
\* process.
MODEL_SAM_AUDIO_ID == "facebook/sam-audio-small"

\* The threads that call separate_prompt (one per mix thread, section 5).
SepThreads == 1..MaxSeps

\* What _run_sam_audio_inference raises: out of memory on cuda (ExcOOM) and
\* on mps, a channel mismatch, another RuntimeError (line 291), and an
\* error that is no RuntimeError (ExcBare).
ExcMpsOOM == Exc("RuntimeError", <<"mps", "backend", "out", "of", "memory">>)
ExcChannels == Exc("RuntimeError", <<"expected", "input", "to", "have", "1", "channels", "but", "got", "2">>)
ExcRuntime == Exc("RuntimeError", <<"sam-audio", "expects", "2d", "waveform">>)
InferenceErrors == {ExcOOM, ExcMpsOOM, ExcChannels, ExcRuntime, ExcBare}

\* _is_device_oom, lines 207-224: by the words of the message.
_is_device_oom(exc, device) ==
    /\ device \in {"mps", "cuda"}
    /\ Contains(exc.words, <<device>>)
    /\ Contains(exc.words, <<"out", "of", "memory">>)

\* _is_channel_mismatch, lines 227-229.
_is_channel_mismatch(exc) ==
    /\ Contains(exc.words, <<"expected", "input">>)
    /\ Contains(exc.words, <<"channels">>)
    /\ Contains(exc.words, <<"but", "got">>)

\* _should_fallback_to_cpu, lines 232-237; enabled is
\* _device_fallback_enabled() (lines 200-204).
_should_fallback_to_cpu(device, exc, enabled) ==
    /\ device \in {"mps", "cuda"}
    /\ enabled
    /\ _is_device_oom(exc, device) \/ _is_channel_mismatch(exc)

\* A thread outside _separate_sam_audio; inside, want is the device it asks
\* the loader for, got the (model, device) the loader returned (a model is
\* the device it was moved to), ran the (model, device) of each
\* _run_sam_audio_inference call made so far, exc the error of the first
\* call, raised the error that left _separate_sam_audio.
SepIdle ==
    [pc |-> "idle", want |-> "cpu", got |-> None, ran |-> << >>, exc |-> NoExc,
     raised |-> NoExc]

\* The process before any model is loaded (lines 19-23): the device
\* SAM_AUDIO_DEVICE resolves to (lines 89-100), whether fallback is enabled,
\* the globals _SAM_AUDIO_MODEL (with _SAM_AUDIO_PROCESSOR),
\* _SAM_AUDIO_DEVICE and _SAM_AUDIO_MODEL_ID, and the holder of _MODEL_LOCK.
SamAudioCalls ==
    {[op |-> "sam_audio", env_device |-> d, fallback |-> f, model |-> None,
      device |-> None, model_id |-> None, lock |-> 0, started |-> 0,
      sep |-> [t \in SepThreads |-> SepIdle]] : d \in {"cuda", "mps", "cpu"}, f \in BOOLEAN}

InitSamAudio == Started /\ calc \in SamAudioCalls

\* _separate_sam_audio, lines 324-326: a separation starts by asking the
\* loader for the model on the device of the process.
SeparateCall(t) ==
    /\ calc.op = "sam_audio"
    /\ calc.sep[t].pc \in {"idle", "returned", "raised"}
    /\ calc.started < MaxSepCalls
    /\ calc' = [calc EXCEPT !.started = @ + 1,
                            !.sep[t] = [SepIdle EXCEPT !.pc = "load_check", !.want = calc.env_device]]
    /\ UNCHANGED others

\* The test of lines 133-137 and 140-144: a model is loaded, of this id, on
\* this device.
Loaded(t) ==
    /\ calc.model # None
    /\ calc.model_id = Some(MODEL_SAM_AUDIO_ID)
    /\ calc.device = Some(calc.sep[t].want)

\* _load_sam_audio_model, lines 133-137: the test without the lock.
LoadCheck(t) ==
    /\ calc.op = "sam_audio"
    /\ calc.sep[t].pc = "load_check"
    /\ calc' = [calc EXCEPT !.sep[t].pc = IF Loaded(t) THEN "load_return" ELSE "load_lock"]
    /\ UNCHANGED others

\* Lines 138 and 145: return _SAM_AUDIO_MODEL, _SAM_AUDIO_PROCESSOR,
\* _SAM_AUDIO_DEVICE, the globals as they are when the return reads them;
\* the return of line 145 leaves the with block and releases the lock.
LoadReturn(t) ==
    /\ calc.op = "sam_audio"
    /\ calc.sep[t].pc = "load_return"
    /\ calc' = [calc EXCEPT !.sep[t].pc = "infer",
                            !.sep[t].got = Some([model |-> Val(calc.model), device |-> Val(calc.device)]),
                            !.lock = IF @ = t THEN 0 ELSE @]
    /\ UNCHANGED others

\* Lines 139-144: the lock is taken and the test made again.
LoadLock(t) ==
    /\ calc.op = "sam_audio"
    /\ calc.sep[t].pc = "load_lock"
    /\ calc.lock = 0
    /\ calc' = [calc EXCEPT !.lock = t,
                            !.sep[t].pc = IF Loaded(t) THEN "load_return" ELSE "load_store"]
    /\ UNCHANGED others

\* Lines 146-153: a new model is loaded and moved to the device, and stored
\* in _SAM_AUDIO_MODEL (and its processor in _SAM_AUDIO_PROCESSOR).
LoadStore(t) ==
    /\ calc.op = "sam_audio"
    /\ calc.sep[t].pc = "load_store"
    /\ calc' = [calc EXCEPT !.model = Some(calc.sep[t].want), !.sep[t].pc = "load_publish"]
    /\ UNCHANGED others

\* Lines 154-161: _SAM_AUDIO_DEVICE and _SAM_AUDIO_MODEL_ID are stored, the
\* globals are returned and the lock is released.
LoadPublish(t) ==
    /\ calc.op = "sam_audio"
    /\ calc.sep[t].pc = "load_publish"
    /\ calc' = [calc EXCEPT !.device = Some(calc.sep[t].want),
                            !.model_id = Some(MODEL_SAM_AUDIO_ID),
                            !.lock = 0,
                            !.sep[t].pc = "infer",
                            !.sep[t].got = Some([model |-> Val(calc.model), device |-> calc.sep[t].want])]
    /\ UNCHANGED others

\* Lines 335-362: _run_sam_audio_inference with what the loader returned. It
\* returns, or it raises: a RuntimeError of the first call for which
\* _should_fallback_to_cpu holds sends the thread to the loader for the cpu
\* model (line 353) and to one more call; every other error leaves
\* _separate_sam_audio.
Infer(t) ==
    /\ calc.op = "sam_audio"
    /\ calc.sep[t].pc = "infer"
    /\ \E exc \in {NoExc} \cup InferenceErrors :
        LET sep == [calc.sep[t] EXCEPT !.ran = Append(@, Val(calc.sep[t].got))] IN
        calc' = [calc EXCEPT !.sep[t] =
                    IF exc = NoExc THEN [sep EXCEPT !.pc = "returned"]
                    ELSE IF /\ calc.sep[t].ran = << >>
                            /\ exc.cls = "RuntimeError"
                            /\ _should_fallback_to_cpu(Val(calc.sep[t].got).device, exc, calc.fallback)
                    THEN [sep EXCEPT !.pc = "load_check", !.want = "cpu", !.exc = exc]
                    ELSE [sep EXCEPT !.pc = "raised", !.raised = exc,
                                     !.exc = IF calc.sep[t].ran = << >> THEN exc ELSE @]]
    /\ UNCHANGED others

NextSamAudio ==
    \E t \in SepThreads :
        \/ SeparateCall(t) \/ LoadCheck(t) \/ LoadReturn(t) \/ LoadLock(t)
        \/ LoadStore(t) \/ LoadPublish(t) \/ Infer(t)

SpecSamAudio == InitSamAudio /\ [][NextSamAudio]_vars

\* ---------------------------------------------------------- properties
\* The mix thread of run r exists and has not returned yet.
Active(r) == run[r].pc \notin {"none", "done"}

\* The mix thread of run r takes a step.
Steps(r) == Active(r) /\ run'[r] # run[r]

\* Status of the job's MixRunState, "" without one.
MixStatus(states, job_id) == IF job_id \in DOMAIN states THEN states[job_id].status ELSE ""

\* Status of the Job record, "" without one.
JobStatusOf(js, job_id) == IF job_id \in DOMAIN js THEN js[job_id].status ELSE ""

\* A newer Start has stored a newer token for the job of run r.
Superseded(r) ==
    /\ Active(r)
    /\ run[r].job_id \in DOMAIN mix_tokens
    /\ mix_tokens[run[r].job_id] > r

\* C1: once a newer Start has stored its token for the job, no step of the
\* superseded mix thread changes the job's MixRunState, its current token or
\* its Job record.
C1_SupersededRunChangesNothing ==
    [][\A r \in Tokens :
        (Superseded(r) /\ Steps(r)) => UNCHANGED <<jobs, mix_states, mix_tokens>>]_vars

\* cancel_mix has set the state of run r to CANCELLED: the state is
\* CANCELLED under r's token while the mix thread of r is still at work (the
\* thread's own CANCELLED write is its last step).
CancelApplied(r) ==
    /\ Active(r)
    /\ MixStatus(mix_states, run[r].job_id) = "CANCELLED"
    /\ Get(mix_tokens, run[r].job_id) = Some(r)

\* C2: after cancel_mix has set the state of a run to CANCELLED, no step of
\* that run's mix thread makes the MixRunState or the Job status RUNNING,
\* DONE or FAILED.
C2_CancelledStaysCancelled ==
    [][\A r \in Tokens :
        (CancelApplied(r) /\ Steps(r)) =>
            /\ MixStatus(mix_states', run[r].job_id) = "CANCELLED"
            /\ \/ JobStatusOf(jobs', run[r].job_id) = JobStatusOf(jobs, run[r].job_id)
               \/ JobStatusOf(jobs', run[r].job_id) \notin {"RUNNING", "DONE", "FAILED"}]_vars

\* The fields of the Job records, the states and the tokens, in memory and
\* in the durable store.
records == <<jobs, job_store, mix_states, mix_tokens>>

\* C3: a mix_job call with force=false that finds the job's MixRunState
\* RUNNING at line 382 answers with that state; the Job record, the state
\* and the token stay as they are, no token is minted, no thread started.
C3_SingleFlightChangesNothing ==
    [][\A q \in Reqs :
        (/\ req[q].op = "mix" /\ req[q].pc = "mix_existing" /\ ~req[q].force
         /\ MixStatus(mix_states, req[q].job_id) = "RUNNING"
         /\ req'[q] # req[q])
        => /\ req'[q].pc = "ret"
           /\ req'[q].result = Some([http |-> 200, body |-> mix_states[req[q].job_id]])
           /\ req'[q].token = 0
           /\ UNCHANGED <<records, minted, run>>]_vars

\* A force=false call has answered with the RUNNING state without minting.
C3_Witness ==
    \E q \in Reqs :
        /\ req[q].op = "mix" /\ req[q].pc = "ret" /\ ~req[q].force /\ req[q].token = 0
        /\ Val(req[q].result).http = 200
        /\ Val(req[q].result).body.status = "RUNNING"
        /\ MixStatus(mix_states, req[q].job_id) = "RUNNING"

\* C4: of concurrent mix_job calls with force=false on one job, none
\* starts a run while the run of another of them is RUNNING.
C4_OneStartWhileRunning ==
    [][\A q \in Reqs :
        (/\ req[q].op = "mix" /\ req[q].pc = "mix_set_state" /\ ~req[q].force
         /\ req'[q].pc = "mix_return")
        => ~(\E p \in Reqs \ {q} :
                /\ req[p].op = "mix" /\ req[p].pc = "mix_return" /\ ~req[p].force
                /\ req[p].job_id = req[q].job_id
                /\ MixStatus(mix_states, req[q].job_id) = "RUNNING"
                /\ Get(mix_tokens, req[q].job_id) = Some(req[p].token))]_vars

\* C5: cancel_mix that finds the state RUNNING writes the Job record with
\* status CANCELLED and then the MixRunState with status CANCELLED and the
\* progress, chunks_done, chunks_total and eta_seconds it found, leaves the
\* token alone and answers with the state it wrote.
C5_CancelSetsCancelled ==
    [][\A q \in Reqs :
        /\ (/\ req[q].pc = "idle" /\ req'[q].op = "cancel"
            /\ MixStatus(mix_states, req'[q].job_id) = "RUNNING")
           => /\ req'[q].pc = "cancel_get_job"
              /\ req'[q].state = Some(mix_states[req'[q].job_id])
              /\ UNCHANGED records
        /\ (req[q].op = "cancel" /\ req[q].pc = "cancel_get_job" /\ req'[q] # req[q])
           => /\ req'[q].pc = IF req[q].job_id \in DOMAIN jobs
                              THEN "cancel_set_job" ELSE "cancel_set_state"
              /\ UNCHANGED records
        /\ (req[q].op = "cancel" /\ req[q].pc = "cancel_set_job" /\ req'[q] # req[q])
           => /\ req'[q].pc = "cancel_persist"
              /\ JobStatusOf(jobs', req[q].job_id) = "CANCELLED"
              /\ UNCHANGED <<job_store, mix_states, mix_tokens>>
        /\ (req[q].op = "cancel" /\ req[q].pc = "cancel_persist" /\ req'[q] # req[q])
           => /\ req'[q].pc = "cancel_set_state"
              /\ job_store'[req[q].job_id].status = "CANCELLED"
              /\ UNCHANGED <<jobs, mix_states, mix_tokens>>
        /\ (req[q].op = "cancel" /\ req[q].pc = "cancel_set_state" /\ req'[q] # req[q])
           => LET found == Val(req[q].state)
                  written == mix_states'[req[q].job_id]
              IN  /\ written.status = "CANCELLED"
                  /\ written.progress = found.progress
                  /\ written.chunks_done = found.chunks_done
                  /\ written.chunks_total = found.chunks_total
                  /\ written.eta_seconds = found.eta_seconds
                  /\ UNCHANGED <<jobs, job_store, mix_tokens>>
                  /\ req'[q].pc = "ret"
                  /\ req'[q].result = Some([http |-> 200, body |-> written])]_vars

\* cancel_mix has answered CANCELLED for a state it found RUNNING, the Job
\* and the state are CANCELLED, and the run's thread is still at work.
C5_Witness ==
    \E q \in Reqs :
        /\ req[q].op = "cancel" /\ req[q].pc = "ret" /\ req[q].state # None
        /\ Val(req[q].result).http = 200
        /\ Val(req[q].result).body.status = "CANCELLED"
        /\ Val(req[q].result).body.progress = Some(Zero)
        /\ MixStatus(mix_states, req[q].job_id) = "CANCELLED"
        /\ JobStatusOf(jobs, req[q].job_id) = "CANCELLED"
        /\ \E r \in Tokens : Active(r) /\ Get(mix_tokens, req[q].job_id) = Some(r)

\* C6: cancel_mix on a job whose state is DONE, FAILED or CANCELLED answers
\* with that state, on a job without a state with not-found; either way the
\* Job records, the states and the tokens stay as they are.
C6_CancelNoOp ==
    [][\A q \in Reqs :
        (req[q].pc = "idle" /\ req'[q].op = "cancel") =>
            /\ req'[q].job_id \notin DOMAIN mix_states
               => /\ req'[q].pc = "ret"
                  /\ Val(req'[q].result).http = 404
                  /\ UNCHANGED records
            /\ MixStatus(mix_states, req'[q].job_id) \in {"DONE", "FAILED", "CANCELLED"}
               => /\ req'[q].pc = "ret"
                  /\ req'[q].result = Some([http |-> 200, body |-> mix_states[req'[q].job_id]])
                  /\ UNCHANGED records]_vars

\* A cancel of an already CANCELLED mix has answered with the state.
C6_Witness ==
    \E q \in Reqs :
        /\ req[q].op = "cancel" /\ req[q].pc = "ret" /\ req[q].state = None
        /\ Val(req[q].result).http = 200
        /\ Val(req[q].result).body.status = "CANCELLED"
        /\ mix_states[req[q].job_id] = Val(req[q].result).body

\* C7: a mix_job request for an unknown job, for a job without a readable
\* input, with no prompts or with prompts and gains of different lengths is
\* answered with an error at once; no Job record, state or token changes, no
\* token is minted and no thread started.
C7_RejectedStartChangesNothing ==
    [][\A q \in Reqs :
        (/\ req[q].pc = "idle" /\ req'[q].op = "mix"
         /\ \/ req'[q].job_id \notin DOMAIN jobs
            \/ req'[q].job_id \notin job_files
            \/ req'[q].prompts = 0
            \/ req'[q].prompts # req'[q].gains)
        => /\ req'[q].pc = "ret"
           /\ Val(req'[q].result).http \in {400, 404}
           /\ req'[q].token = 0
           /\ UNCHANGED <<records, minted, run>>]_vars

\* A request without prompts was rejected while a mix of the job is RUNNING.
C7_Witness ==
    \E q \in Reqs :
        /\ req[q].op = "mix" /\ req[q].pc = "ret" /\ req[q].prompts = 0
        /\ req[q].job_id \in job_files
        /\ Val(req[q].result).http = 400
        /\ MixStatus(mix_states, req[q].job_id) = "RUNNING"

C9_FailedStateCarriesCode ==
    [][\A r \in Tokens :
        (run[r].pc = "fail_set_state" /\ run'[r] # run[r])
        => LET state == mix_states'[run[r].job_id]
           IN  /\ state.status = "FAILED"
               /\ state.detail \notin {None, Some(<< >>)}
               /\ "error_code" \in DOMAIN state
               /\ state.error_code = Some(classify_error(run[r].exc)[1])]_vars

\* C10: a CancelledError takes the run to the cancelled handler, whose
\* steps write nothing but CANCELLED; and an ordinary error of a run whose
\* state is CANCELLED, or whose token is no longer current, ends the run
\* with the Job record, the state and the token as they are.
C10_CancellationNeverFailed ==
    [][\A r \in Tokens :
        /\ (Steps(r) /\ run'[r].exc = ExcCancelled /\ run[r].exc # ExcCancelled)
           => run'[r].pc = "can_read" /\ UNCHANGED records
        /\ (Steps(r) /\ run[r].exc = ExcCancelled)
           => /\ run[r].pc \in {"can_read", "can_set_job", "can_persist", "can_set_state"}
              /\ run'[r].pc \in {"can_set_job", "can_persist", "can_set_state", "done"}
              /\ jobs' # jobs => JobStatusOf(jobs', run[r].job_id) = "CANCELLED"
              /\ job_store' # job_store => JobStatusOf(job_store', run[r].job_id) = "CANCELLED"
              /\ mix_states' # mix_states => MixStatus(mix_states', run[r].job_id) = "CANCELLED"
        /\ (/\ Steps(r) /\ run[r].pc = "exc_check"
            /\ \/ MixStatus(mix_states, run[r].job_id) = "CANCELLED"
               \/ Get(mix_tokens, run[r].job_id) # Some(r))
           => run'[r].pc = "done" /\ UNCHANGED records]_vars

\* The engine of a run has raised an ordinary error after cancel_mix set the
\* run's state and the Job to CANCELLED.
C10_Witness ==
    \E r \in Tokens :
        /\ run[r].pc = "exc_check" /\ run[r].exc \in EngineErrors
        /\ CancelApplied(r)
        /\ JobStatusOf(jobs, run[r].job_id) = "CANCELLED"

\* The terminal statuses of a MixRunState.
Terminal == {"DONE", "FAILED", "CANCELLED"}

\* A mix_job call records its RUNNING state for the job: a Start is accepted.
StartAccepted(job_id) ==
    \E q \in Reqs :
        /\ req[q].op = "mix" /\ req[q].pc = "mix_set_state" /\ req[q].job_id = job_id
        /\ req'[q].pc = "mix_return"

\* C11: a terminal MixRunState (what get_mix_status returns for the job)
\* stays as it is until a Start is accepted for the job or the job is
\* deleted: no step of cancel_mix or of a mix thread changes it.
C11_TerminalStateStays ==
    [][\A j \in DOMAIN mix_states :
        (/\ mix_states[j].status \in Terminal
         /\ j \in DOMAIN mix_states'
         /\ mix_states'[j] # mix_states[j])
        => StartAccepted(j)]_vars

\* Two process_job calls are for the same settings (the input is the same
\* upload throughout).
SameSettings(r1, r2) ==
    /\ run[r1].prompts = run[r2].prompts
    /\ run[r1].mode = run[r2].mode
    /\ run[r1].preview = run[r2].preview

C13_CacheHitSkipsStart ==
    [][\A q \in Reqs :
        (/\ req[q].op = "mix" /\ req[q].pc = "mix_set_state" /\ req'[q] # req[q]
         /\ build_settings_fingerprint(req[q].prompts, "keep", req[q].preview) \in cache)
        => /\ MixStatus(mix_states', req[q].job_id) # "RUNNING"
           /\ UNCHANGED run]_vars

\* C15: the mix_history of every Job holds at most the limit (at least 1)
\* of summaries, no summary twice, later mixes after earlier ones; and the
\* success finalize of a run writes the history the run started from with
\* the run's summary appended as the last entry, cut from the front (the
\* oldest entries) when that exceeds the limit.
C15_HistoryBounded ==
    /\ [](\A j \in DOMAIN jobs :
            LET history == jobs[j].mix_history IN
            /\ _mix_history_limit >= 1
            /\ Len(history) <= _mix_history_limit
            /\ \A i, k \in 1..Len(history) :
                i < k => history[i].output_name < history[k].output_name)
    /\ [][\A r \in Tokens :
            (run[r].pc = "fin_set_job" /\ run'[r] # run[r])
            => LET old == Val(run[r].running).mix_history
                   new == jobs'[run[r].job_id].mix_history
                   evicted == IF Len(old) + 1 > _mix_history_limit
                              THEN Len(old) + 1 - _mix_history_limit ELSE 0
               IN  /\ Len(new) = Len(old) + 1 - evicted
                   /\ new[Len(new)].output_name = r
                   /\ \A i \in 1..(Len(new) - 1) : new[i] = old[i + evicted]]_vars

\* Two mixes were finalized on a job that had a mix before: the history is
\* full, holds the two, the newest last, and the earlier one is gone.
C15_Witness ==
    /\ Exists(outputs, EarlierMix.output_name)
    /\ "j1" \in DOMAIN jobs
    /\ Len(jobs["j1"].mix_history) = _mix_history_limit
    /\ jobs["j1"].mix_history[1].output_name = 1
    /\ jobs["j1"].mix_history[_mix_history_limit].output_name = MaxTokens
    /\ jobs["j1"].last_mix = Some(JobMixSummary("preview", MaxTokens))

\* Everything but the handler threads.
shared == <<jobs, job_store, job_files, mix_states, mix_tokens, outputs, cache, chunk_cache, run, minted, cancels, deletes, calc>>

\* C20: get_mix_status answers with the stored MixRunState when there is
\* one; without one it answers with a DONE view that names the most recently
\* modified output of the job's output directory and nothing else, or with
\* not-found when the directory holds no output; it changes nothing.
C20_StatusView ==
    [][\A q \in Reqs :
        /\ (req[q].pc = "idle" /\ req'[q].op = "status")
           => /\ UNCHANGED shared
              /\ IF req'[q].job_id \in DOMAIN mix_states
                 THEN /\ req'[q].pc = "ret"
                      /\ req'[q].result = Some([http |-> 200, body |-> mix_states[req'[q].job_id]])
                 ELSE req'[q].pc = "status_latest"
        /\ (req[q].op = "status" /\ req[q].pc = "status_latest" /\ req'[q] # req[q])
           => LET mine == {i \in 1..Len(outputs) : OutputJob(outputs[i]) = req[q].job_id}
                  response == Val(req'[q].result)
              IN  /\ UNCHANGED shared
                  /\ req'[q].pc = "ret"
                  /\ IF mine = {}
                     THEN response.http = 404
                     ELSE /\ response.http = 200
                          /\ response.body.status = "DONE"
                          /\ \E i \in mine :
                              /\ \A k \in mine : k <= i
                              /\ response.body.output_url = Some(outputs[i])
                          /\ response.body.detail = None
                          /\ response.body.progress = None
                          /\ response.body.chunks_done = None
                          /\ response.body.chunks_total = None
                          /\ response.body.eta_seconds = None]_vars

\* get_mix_status found no state for a job whose output directory holds two
\* outputs, and has answered with the DONE view of the later one.
C20_Witness ==
    \E q \in Reqs :
        /\ req[q].op = "status" /\ req[q].pc = "ret" /\ req[q].state = None
        /\ req[q].job_id \notin DOMAIN mix_states
        /\ Len(outputs) = MaxTokens
        /\ Val(req[q].result).http = 200
        /\ Val(req[q].result).body.status = "DONE"
        /\ Val(req[q].result).body.output_url = Some(outputs[Len(outputs)])

\* The arguments C16 is about: a non-empty buffer, a chunk of at least one
\* sample, an overlap of at most half a chunk.
ValidRangesCall ==
    /\ calc.op = "_build_chunk_ranges"
    /\ calc.total_len > 0
    /\ calc.chunk_samples >= 1
    /\ 2 * calc.overlap_samples <= calc.chunk_samples

\* C16: for such arguments _build_chunk_ranges returns, and the ranges it
\* returns start at 0, have strictly increasing starts, are not empty, end
\* at or before total_len, the last one exactly at total_len, and every
\* sample of [0, total_len) lies in one of them.
C16_RangesCover ==
    /\ [](ValidRangesCall /\ calc.pc = "built" =>
            LET ranges == calc.ranges
                n == Len(ranges)
            IN  /\ n >= 1
                /\ ranges[1][1] = 0
                /\ \A i \in 1..(n - 1) : ranges[i][1] < ranges[i + 1][1]
                /\ \A i \in 1..n : ranges[i][1] < ranges[i][2] /\ ranges[i][2] <= calc.total_len
                /\ ranges[n][2] = calc.total_len
                /\ \A x \in 0..(calc.total_len - 1) :
                    \E i \in 1..n : ranges[i][1] <= x /\ x < ranges[i][2])
    /\ <>(ValidRangesCall => calc.pc = "built")

\* _build_chunk_ranges has returned three or more overlapping ranges, the
\* last shorter than a chunk.
C16_Witness ==
    /\ ValidRangesCall /\ calc.pc = "built"
    /\ Len(calc.ranges) >= 3
    /\ calc.overlap_samples >= 2
    /\ calc.ranges[Len(calc.ranges)][2] - calc.ranges[Len(calc.ranges)][1] < calc.chunk_samples

\* The chunked engine has built its ranges (and may have gone on).
EngineRanges ==
    /\ calc.op = "run_separation_chunked"
    /\ calc.pc \in {"built", "returned", "raised"}
    /\ calc.ranges # << >>

\* C17: in the ranges the chunked engine builds, consecutive ranges overlap
\* by exactly the clamped overlap_samples, which is at most half a chunk;
\* every range but the last is chunk_samples long, the last at most that.
C17_ConsecutiveOverlap ==
    EngineRanges =>
        LET ranges == calc.ranges
            n == Len(ranges)
        IN  /\ 0 <= calc.overlap_samples /\ 2 * calc.overlap_samples <= calc.chunk_samples
            /\ \A i \in 1..(n - 1) :
                /\ ranges[i][2] - ranges[i + 1][1] = calc.overlap_samples
                /\ ranges[i][2] - ranges[i][1] = calc.chunk_samples
            /\ ranges[n][2] - ranges[n][1] <= calc.chunk_samples

\* The engine has built three or more ranges that overlap by two samples or
\* more, the last shorter than a chunk.
C17_Witness ==
    /\ EngineRanges /\ calc.pc = "built" /\ calc.done = 0
    /\ Len(calc.ranges) >= 3
    /\ calc.overlap_samples >= 2
    /\ calc.ranges[Len(calc.ranges)][2] - calc.ranges[Len(calc.ranges)][1] < calc.chunk_samples

\* The chunk loop of the engine has run through all its ranges.
LoopReturned ==
    /\ calc.op = "run_separation_chunked"
    /\ calc.pc = "returned"
    /\ calc.ranges # << >>

\* C18: when the chunk loop has run through, the accumulated weight is
\* exactly 1 at every sample; every sample lies in one range or in two
\* consecutive ones; and with a per-chunk transform that gives its input
\* back (no prompts, mode "remove", peak below 0.95) the output before
\* normalization is the input.
C18_WeightsSumToOne ==
    LoopReturned =>
        LET ranges == calc.ranges
            covering(x) == {i \in 1..Len(ranges) : ranges[i][1] <= x /\ x < ranges[i][2]}
        IN  /\ Len(calc.weight) = calc.total_len
            /\ \A i \in 1..calc.total_len : calc.weight[i] = <<1, 1>>
            /\ \A x \in 0..(calc.total_len - 1) :
                \/ Cardinality(covering(x)) = 1
                \/ \E i \in 1..(Len(ranges) - 1) : covering(x) = {i, i + 1}
            /\ (calc.prompts = 0 /\ calc.mode = "remove")
                => calc.mixed = [i \in 1..calc.total_len |-> Frac(i, 2 * MaxLen)]

\* The loop has run through three or more ranges that overlap by two samples
\* or more.
C18_Witness ==
    /\ LoopReturned
    /\ Len(calc.ranges) >= 3
    /\ calc.overlap_samples >= 2
    /\ calc.done = Len(calc.ranges)
    /\ calc.mode = "remove"

\* C19: given a buffer longer than one chunk (no cache directory, no
\* cancellation), the chunked engine returns, having invoked run_separation
\* once for each range in the order of the ranges, and its output has
\* total_len samples.
C19_OneInvocationPerRange ==
    (/\ calc.op = "run_separation_chunked"
     /\ calc.chunk_samples >= 1 /\ calc.total_len > calc.chunk_samples
     /\ calc.pc \in {"returned", "raised"})
    => /\ calc.pc = "returned"
       /\ calc.invoked = calc.ranges
       /\ Len(calc.ranges) >= 2
       /\ Len(calc.output) = calc.total_len

\* The two sets of arguments agree: the same prompts in order, the same mode,
\* and equal numbers (Python ==) for the gains in order, the sample rate,
\* the preview window and the chunk settings.
SettingsAgree(a, b) ==
    /\ a.prompts = b.prompts
    /\ a.mode = b.mode
    /\ Len(a.gains) = Len(b.gains)
    /\ \A i \in 1..Len(a.gains) : i <= Len(b.gains) => PyEq(a.gains[i], b.gains[i])
    /\ PyEq(a.target_sr, b.target_sr)
    /\ PyEq(a.preview_seconds, b.preview_seconds)
    /\ PyEq(a.preview_start, b.preview_start)
    /\ PyEq(a.chunk_seconds, b.chunk_seconds)
    /\ PyEq(a.chunk_overlap, b.chunk_overlap)

\* C14: two mix requests get the same canonical settings payload exactly
\* when their settings agree, whatever the order in which the settings
\* object was built.
C14_FingerprintExact ==
    (calc.op = "build_settings_fingerprint" /\ calc.pc = "dumped")
    => (calc.payload[1] = calc.payload[2] <=> SettingsAgree(calc.args[1], calc.args[2]))

\* The state Start records at line 392, as a response.
RunningZero == MixResponse("RUNNING", None, None, None, Some(Zero), None, None, None)

\* The handler q answers an accepted Start in this step (line 531).
StartReturns(q) == req[q].op = "mix" /\ req[q].pc = "mix_return" /\ req'[q].pc = "ret"

\* C21 as stated: an accepted Start returns without waiting for the engine
\* and the state it returns is RUNNING with progress 0, in every interleaving
\* with the execution it launched.
C21_ReturnsRunningZero ==
    [][\A q \in Reqs : StartReturns(q) => req'[q].result = Ok(RunningZero)]_vars

\* C21 amended: an accepted Start records RUNNING with progress 0 under its
\* new token and returns without waiting for the engine; what it returns is
\* the job's state as read at the moment of return: the state it recorded
\* unless an execution thread or another request replaced or removed it in
\* between (a bare RUNNING state when it was removed).
C21_ReturnsStateAtReturn ==
    [][\A q \in Reqs :
          LET job_id == req[q].job_id IN
          /\ (req[q].pc = "mix_set_state" /\ req'[q].pc = "mix_return")
                => /\ Get(mix_states', job_id) = Some(RunningZero)
                   /\ Get(mix_tokens', job_id) = Some(req[q].token)
                   /\ run'[req[q].token].pc = "pj_cancel_state"
          /\ (req[q].pc = "mix_return" /\ req'[q].pc = "mix_return"
                /\ Get(mix_states', job_id) # Get(mix_states, job_id))
                => (run' # run \/ \E o \in Reqs \ {q} : req'[o] # req[o])
          /\ StartReturns(q)
                => /\ req'[q].result =
                        IF Get(mix_states, job_id) # None
                        THEN Ok(Val(Get(mix_states, job_id)))
                        ELSE Ok(MixResponse("RUNNING", None, None, None, None, None, None, None))
                   /\ UNCHANGED <<maps, disk, run>>]_vars

\* A Start has returned a state that is no longer RUNNING: the execution it
\* launched finished before the handler read the state back.
C21_Witness ==
    \E q \in Reqs :
        /\ req[q].op = "mix" /\ req[q].pc = "ret" /\ req[q].token > 0
        /\ req[q].result # None
        /\ Val(req[q].result).http = 200
        /\ Val(req[q].result).body # RunningZero
        /\ run[req[q].token].pc = "done"

\* A _set_job call on the job is between its in-memory write (line 83) and
\* the end of its _persist_job (line 84).
SetJobInProgress(job_id) ==
    \/ \E q \in Reqs : req[q].job_id = job_id /\ req[q].pc \in {"mix_persist", "cancel_persist"}
    \/ \E t \in Tokens : /\ run[t].job_id = job_id
                          /\ run[t].pc \in {"fin_persist", "can_persist", "fail_persist"}

\* C22: whenever no _set_job call is in progress for a job, the durable
\* record of the job equals its in-memory record, in every interleaving of
\* the Job updates of Start, Cancel and finalize.
C22_DurableEqualsMemory ==
    \A job_id \in JobIds :
        (Get(jobs, job_id) # None /\ ~SetJobInProgress(job_id))
            => Get(job_store, job_id) = Some(_job_payload(Val(Get(jobs, job_id))))

\* C23: a preview run is never chunked: no step of it enters the chunk
\* loop or touches the chunk cache, and its one whole-buffer invocation
\* returns the output and is followed by the progress report (1, 1).
C23_PreviewBypassesChunking ==
    [][\A r \in Tokens :
        (run[r].preview /\ Steps(r))
        => /\ run'[r].pc \notin {"ch_cancel_state", "ch_cancel_token", "ch_sep"}
           /\ chunk_cache' = chunk_cache
           /\ run[r].pc = "sep"
                => /\ run'[r].invoked = 1 /\ run[r].invoked = 0
                   /\ run'[r].done = 1 /\ Total(r) = 1
                   /\ run'[r].pc = "pg_check"]_vars

\* Nothing of the job is left: no record in memory or on disk, no upload,
\* no output file, no state and no token.
Gone(job_id) ==
    /\ job_id \notin DOMAIN jobs /\ job_id \notin DOMAIN job_store
    /\ job_id \notin job_files
    /\ \A i \in 1..Len(outputs) : OutputJob(outputs[i]) # job_id
    /\ job_id \notin DOMAIN mix_states /\ job_id \notin DOMAIN mix_tokens

\* No mix thread was ever started for the job.
NeverMixed(job_id) == \A r \in Tokens : run[r].pc = "none" \/ run[r].job_id # job_id

\* C24: delete_job on a job with a record removes, step by step, the
\* in-memory record, the durable record, the upload and the output files,
\* and the state with the token, and answers "deleted" (with no mix thread
\* of the job around, nothing of the job is left then); on an id without
\* any record it answers not-found and has changed nothing.
C24_DeleteRemovesAll ==
    [][\A q \in Reqs :
        LET job_id == req'[q].job_id IN
        /\ (req[q].pc = "idle" /\ req'[q].op = "delete")
           => /\ req'[q].pc = "delete_store"
              /\ job_id \notin DOMAIN jobs'
              /\ req'[q].job = Get(jobs, job_id)
              /\ job_id \notin DOMAIN jobs => jobs' = jobs
              /\ \A other \in DOMAIN jobs \ {job_id} : Get(jobs', other) = Get(jobs, other)
              /\ UNCHANGED <<job_store, job_files, mix_states, mix_tokens, disk>>
        /\ (req[q].op = "delete" /\ req[q].pc = "delete_store" /\ req'[q] # req[q])
           => IF req[q].job = None /\ job_id \notin DOMAIN job_store
              THEN /\ req'[q].pc = "ret"
                   /\ req'[q].result = HttpError(404, "job not found")
                   /\ UNCHANGED <<maps, disk>>
              ELSE /\ req'[q].pc = "delete_files"
                   /\ job_id \notin DOMAIN job_store'
                   /\ UNCHANGED <<jobs, job_files, mix_states, mix_tokens, disk>>
        /\ (req[q].op = "delete" /\ req[q].pc = "delete_files" /\ req'[q] # req[q])
           => /\ req'[q].pc = "delete_mix"
              /\ job_id \notin job_files'
              /\ \A i \in 1..Len(outputs') : OutputJob(outputs'[i]) # job_id
              /\ UNCHANGED <<jobs, job_store, mix_states, mix_tokens, cache, chunk_cache>>
        /\ (req[q].op = "delete" /\ req[q].pc = "delete_mix" /\ req'[q] # req[q])
           => /\ req'[q].pc = "ret"
              /\ req'[q].result = Ok("deleted")
              /\ job_id \notin DOMAIN mix_states' /\ job_id \notin DOMAIN mix_tokens'
              /\ UNCHANGED <<jobs, job_store, job_files, disk>>
              /\ NeverMixed(req[q].job_id) => Gone(req[q].job_id)']_vars

\* delete_job has answered "deleted" for j1, which had been mixed to the
\* end before: its records, files, state and token are gone.
C24_Witness ==
    \E q \in Reqs :
        /\ req[q].op = "delete" /\ req[q].pc = "ret" /\ req[q].job_id = "j1"
        /\ req[q].result = Ok("deleted")
        /\ \E r \in Tokens : run[r].job_id = "j1" /\ run[r].pc = "done"
        /\ Gone("j1")

\* The ids of the jobs a cleanup holds in its list.
TodoIds(todo) == {todo[i].id : i \in 1..Len(todo)}

\* The number of jobs cleanup_jobs keeps of n jobs for the keep_latest given.
Kept(keep_latest, n) == Min(Max(0, keep_latest), n)

\* C25: cleanup_jobs with keep_latest = N lists for removal all jobs but
\* the min(max(N, 0), number of jobs) most recently created ones, and for
\* each listed job removes the record, the durable record, the files and
\* the state with the token; remaining_jobs in the response is the number
\* of jobs in the job map at that moment. With no mix thread around, the
\* jobs left at the response are exactly those most recent ones and nothing
\* is left of the others.
C25_CleanupKeepsLatest ==
    [][\A q \in Reqs :
        /\ (req[q].pc = "idle" /\ req'[q].op = "cleanup" /\ req'[q].keep_latest # None)
           => LET N == Val(req'[q].keep_latest)
                  listed == TodoIds(req'[q].todo)
              IN  /\ N >= 0
                  /\ listed \subseteq DOMAIN jobs
                  /\ Len(req'[q].todo) = Cardinality(listed)
                  /\ Cardinality(DOMAIN jobs \ listed) = Kept(N, Cardinality(DOMAIN jobs))
                  /\ \A k \in DOMAIN jobs \ listed, x \in listed : created_at[k] > created_at[x]
                  /\ UNCHANGED <<maps, disk>>
        /\ (req[q].op = "cleanup" /\ req[q].pc = "cleanup_pop" /\ req'[q] # req[q])
           => /\ Head(req[q].todo).id \notin DOMAIN jobs'
              /\ req'[q].removed_jobs = Append(req[q].removed_jobs, Head(req[q].todo).id)
              /\ req'[q].pc = "cleanup_unlink" /\ req'[q].todo = req[q].todo
        /\ (req[q].op = "cleanup" /\ req[q].pc = "cleanup_unlink" /\ req'[q] # req[q])
           => /\ Head(req[q].todo).id \notin DOMAIN job_store'
              /\ req'[q].pc = "cleanup_files" /\ req'[q].todo = req[q].todo
        /\ (req[q].op = "cleanup" /\ req[q].pc = "cleanup_files" /\ req'[q] # req[q])
           => /\ Head(req[q].todo).id \notin job_files'
              /\ \A i \in 1..Len(outputs') : OutputJob(outputs'[i]) # Head(req[q].todo).id
              /\ req'[q].pc = "cleanup_mix" /\ req'[q].todo = req[q].todo
        /\ (req[q].op = "cleanup" /\ req[q].pc = "cleanup_mix" /\ req'[q] # req[q])
           => /\ Head(req[q].todo).id \notin DOMAIN mix_states'
              /\ Head(req[q].todo).id \notin DOMAIN mix_tokens'
              /\ req'[q].todo = Tail(req[q].todo)
              /\ req'[q].pc = "cleanup_pop" <=> Tail(req[q].todo) # << >>
        /\ (req[q].op = "cleanup" /\ req[q].pc = "cleanup_return" /\ req'[q] # req[q])
           => LET body == Val(req'[q].result).body
                  removed == {req[q].removed_jobs[i] : i \in 1..Len(req[q].removed_jobs)}
                  keep_latest == req[q].keep_latest
              IN  /\ body.remaining_jobs = Cardinality(DOMAIN jobs)
                  /\ body.removed_jobs = req[q].removed_jobs
                  /\ UNCHANGED <<maps, disk>>
                  /\ keep_latest = None => removed = {}
                  /\ (keep_latest # None /\ \A r \in Tokens : run[r].pc = "none")
                     => /\ removed \cap DOMAIN jobs = {}
                        /\ Cardinality(DOMAIN jobs) =
                              Kept(Val(keep_latest), Cardinality(DOMAIN jobs \cup removed))
                        /\ \A k \in DOMAIN jobs, x \in removed : created_at[k] > created_at[x]
                        /\ \A x \in removed : Gone(x)]_vars

\* A cleanup that kept the one latest job has answered: j1, the older job,
\* was removed with its records, files, state and token, and j2 is left.
C25_Witness ==
    \E q \in Reqs :
        /\ req[q].op = "cleanup" /\ req[q].pc = "ret"
        /\ Val(req[q].result).body.removed_jobs = <<"j1">>
        /\ Val(req[q].result).body.remaining_jobs = 1
        /\ Gone("j1") /\ DOMAIN jobs = {"j2"} /\ DOMAIN job_store = {"j2"}

\* C26: peak_normalize returns an empty or all-zero buffer as it is;
\* otherwise every output sample is the input sample times
\* min(1, target_peak / peak): no sample grows in magnitude or changes its
\* sign, and the peak of the output is min(peak, target_peak).
C26_PeakNormalize ==
    (calc.op = "peak_normalize" /\ calc.pc = "returned")
    => LET audio == calc.audio
           out == calc.output
           peak == calc.peak
           target == calc.target_peak
       IN  /\ Len(out) = Len(audio)
           /\ (audio = << >> \/ \A i \in 1..Len(audio) : audio[i] = Zero) => out = audio
           /\ \A i \in 1..Len(audio) :
                /\ FracLe(FracAbs(out[i]), FracAbs(audio[i]))
                /\ (out[i][1] < 0) = (audio[i][1] < 0)
                /\ IF FracLe(peak, target) THEN out[i] = audio[i]
                   ELSE out[i][1] * audio[i][2] * peak[1] * target[2]
                            = audio[i][1] * out[i][2] * target[1] * peak[2]
           /\ Peak(out) = FracMin(peak, target)

\* peak_normalize has returned a buffer with samples of both signs whose
\* peak was above the target: the output is scaled down to the target.
C26_Witness ==
    /\ calc.op = "peak_normalize" /\ calc.pc = "returned"
    /\ Len(calc.audio) = 3
    /\ \E i, j \in 1..3 : calc.audio[i][1] < 0 /\ calc.audio[j][1] > 0
    /\ ~FracLe(calc.peak, calc.target_peak)
    /\ Peak(calc.output) = calc.target_peak
    /\ calc.output # calc.audio

\* No cancel_mix has changed anything so far and none is being served.
NobodyCancels == cancels = 0 /\ \A q \in Reqs : req[q].op # "cancel"

\* Run r is the newest run of its job: no newer token was minted for the
\* job, by a Start that is done or by one still being served.
Newest(r) ==
    /\ \A t \in Tokens : t > r => (run[t].pc = "none" \/ run[t].job_id # run[r].job_id)
    /\ \A q \in Reqs : ~(req[q].op = "mix" /\ req[q].job_id = run[r].job_id /\ req[q].token > r)

\* Run r was started while the thread of an earlier run of its job was
\* still at work, and that thread has gone on since.
StartedOverEarlier(r) ==
    \E t \in Tokens : t < r /\ run[t].job_id = run[r].job_id /\ run[t].pc # "none"

\* C27: when a run was started over an earlier execution of its job, its
\* engine has succeeded, nobody cancelled and no newer run exists, then the
\* run goes on to finalize the job DONE with its output, whatever the
\* earlier execution did in between.
C27_NewRunFinalizes ==
    [][\A r \in Tokens :
        (/\ run[r].pc = "fin_check" /\ run'[r] # run[r]
         /\ StartedOverEarlier(r) /\ Newest(r) /\ NobodyCancels)
        => run'[r].pc = "fin_set_job"]_vars

\* cancel_mix has set the state of run r to CANCELLED and has answered.
CancelReturned(r) ==
    /\ CancelApplied(r)
    /\ \A q \in Reqs : ~(req[q].op = "cancel" /\ req[q].job_id = run[r].job_id)

\* C28: once cancel_mix has returned CANCELLED for a chunked run, the
\* run's thread writes no output file and no whole-output cache entry, an
\* exception that ends its engine is the cancellation signal, and a
\* cancellation check it makes raises that signal.
C28_CancelledRunAborts ==
    [][\A r \in Tokens :
        (CancelReturned(r) /\ ~run[r].preview /\ Steps(r))
        => /\ outputs' = outputs /\ cache' = cache
           /\ (run[r].exc = NoExc /\ run'[r].exc # NoExc) => run'[r].exc = ExcCancelled
           /\ run[r].pc \in {"pj_cancel_state", "ch_cancel_state"} => run'[r].exc = ExcCancelled
           /\ run'[r].invoked > run[r].invoked => run[r].pc = "ch_sep"]_vars

\* No Start or Cancel is being served for the job and no mix thread of the
\* job is at work.
Quiet(job_id) ==
    /\ \A q \in Reqs : req[q].pc = "idle" \/ req[q].job_id # job_id
    /\ \A r \in Tokens : ~(Active(r) /\ run[r].job_id = job_id)

\* C30: whenever no Start, Cancel or finalize step is in progress for a job
\* that has a MixRunState, the status of the Job record equals the status
\* of the state.
C30_StatusMirrors ==
    \A job_id \in JobIds :
        (job_id \in DOMAIN mix_states /\ Quiet(job_id))
            => JobStatusOf(jobs, job_id) = MixStatus(mix_states, job_id)

\* C29: a job whose MixRunState is RUNNING (an accepted Start recorded it)
\* gets a terminal state, DONE, FAILED or CANCELLED, or loses its state with
\* its deletion, when every thread keeps being scheduled. The job is j1,
\* the one job with an upload, for which a Start can be accepted.
C29_StartTerminates ==
    (MixStatus(mix_states, "j1") = "RUNNING")
        ~> (MixStatus(mix_states, "j1") \in {"DONE", "FAILED", "CANCELLED"}
            \/ "j1" \notin DOMAIN mix_states)

\* Two runs of j1 were started, the second over the first; both threads
\* have ended, no request is being served, and the state of j1 is terminal.
C29_Witness ==
    /\ minted = MaxTokens
    /\ \A r \in Tokens : run[r].pc = "done" /\ run[r].job_id = "j1"
    /\ \A q \in Reqs : req[q].pc = "idle"
    /\ MixStatus(mix_states, "j1") \in {"DONE", "FAILED", "CANCELLED"}

\* delete_job has answered "deleted" for j1 and the answer was sent.
DeleteReturned ==
    /\ deletes >= 1
    /\ \A q \in Reqs : req[q].op # "delete"

\* C31: once delete_job has returned for j1, no later step brings anything
\* of it back (a mix thread may still be running for it): no record in
\* memory or on disk, no state, no token and no output file; and every
\* answer get_mix_status gives for it from then on is not-found.
C31_DeletedStaysDeleted ==
    [][DeleteReturned =>
        /\ "j1" \notin DOMAIN jobs => "j1" \notin DOMAIN jobs'
        /\ "j1" \notin DOMAIN job_store => "j1" \notin DOMAIN job_store'
        /\ "j1" \notin DOMAIN mix_states => "j1" \notin DOMAIN mix_states'
        /\ "j1" \notin DOMAIN mix_tokens => "j1" \notin DOMAIN mix_tokens'
        /\ \A t \in Tokens :
            (OutputJob(t) = "j1" /\ ~Exists(outputs, t)) => ~Exists(outputs', t)
        /\ \A q \in Reqs :
            (req'[q].op = "status" /\ req'[q].job_id = "j1"
                /\ req[q].pc # "ret" /\ req'[q].pc = "ret")
                => req'[q].result = HttpError(404, "mix not started")]_vars

\* C33: no reader takes a cache artifact that is only partly written: when
\* process_job copies the whole-output entry of its fingerprint to its
\* output path, and when the chunk loop looks a chunk entry up, no call is
\* in the middle of writing that entry.
C33_NoPartialCacheRead ==
    [][\A r \in Tokens :
        /\ (run[r].pc = "pj_copy" /\ run'[r].pc # "pj_copy")
            => ~CacheBeingWritten(build_settings_fingerprint(run[r].prompts, run[r].mode, run[r].preview))
        /\ (run[r].pc = "ch_sep" /\ run'[r].pc # "ch_sep" /\ run[r].cache_dir)
            => ~ChunkBeingWritten(ChunkKey(r, run[r].done + 1))]_vars

\* C32: at each chunk, with a cache directory, the cached waveform is used
\* (no transform) exactly when the file of the key exists and holds
\* end - start samples; in every other case the lookup raises nothing, the
\* transform is invoked and, when it returns, its result is written under
\* the key. So a chunk an earlier call completed is not transformed again.
C32_ChunkCacheLookup ==
    [][\A r \in Tokens :
        (run[r].pc = "ch_sep" /\ run'[r].pc # "ch_sep" /\ run[r].cache_dir) =>
            LET chunk == run[r].done + 1
                key == ChunkKey(r, chunk)
                stored == /\ key \in DOMAIN chunk_cache
                          /\ chunk_cache[key] = ChunkRange(chunk)[2] - ChunkRange(chunk)[1]
            IN  IF stored
                THEN /\ run'[r].invoked = run[r].invoked
                     /\ run'[r].done = chunk
                     /\ chunk_cache' = chunk_cache
                ELSE /\ run'[r].invoked = run[r].invoked + 1
                     /\ run'[r].exc \in {NoExc, run_separation(run[r].prompts)}
                     /\ run'[r].exc = NoExc
                            => (run'[r].pc = "ch_write" /\ key \in DOMAIN chunk_cache')]_vars

\* C34: the success finalize of a run writes the Job as it stands at that
\* time, made DONE, with the run's summary appended to its history: what
\* another run appended since the run's Start is still there, and no other
\* field goes back to what it was at the Start.
C34_FinalizeAppendsToCurrent ==
    [][\A r \in Tokens :
        (run[r].pc = "fin_set_job" /\ run'[r].pc = "fin_persist"
            /\ run[r].job_id \in DOMAIN jobs)
        => jobs'[run[r].job_id] =
              _append_mix_history([jobs[run[r].job_id] EXCEPT !.status = "DONE"],
                                  JobMixSummary(IF run[r].preview THEN "preview" ELSE "full", r))]_vars

\* C35: a report of a run that is current and RUNNING is recorded when it
\* is the first (done = 0) or the last (done = total), whatever the rate
\* limit: it passes _progress, _update_mix_progress reads the state and
\* writes it with chunks_done = done, chunks_total = total and progress =
\* done / total (1 after the last chunk).
C35_FirstAndLastReportRecorded ==
    [][\A r \in Tokens :
        LET current == _should_finalize(run[r].job_id, r) IN
        /\ (run[r].pc = "pg_check" /\ run'[r].pc # "pg_check" /\ current
                /\ run[r].done \in {0, Total(r)})
            => run'[r].pc = "pg_read"
        /\ (run[r].pc = "pg_read" /\ run'[r].pc # "pg_read" /\ current)
            => run'[r].pc = "pg_set"
        /\ (run[r].pc = "pg_set" /\ run'[r].pc # "pg_set")
            => /\ run[r].job_id \in DOMAIN mix_states'
               /\ mix_states'[run[r].job_id].status = "RUNNING"
               /\ mix_states'[run[r].job_id].chunks_done = Some(run[r].done)
               /\ mix_states'[run[r].job_id].chunks_total = Some(Total(r))
               /\ mix_states'[run[r].job_id].progress = Some(Frac(run[r].done, Total(r)))]_vars

\* C36: every MixRunState that is written has its progress, when present,
\* in [0, 1], equal to chunks_done / chunks_total when both counters are
\* present, and chunks_done <= chunks_total; and while the token of the
\* job stays the same, the recorded chunks_done does not decrease.
C36_ProgressConsistent ==
    [][\A job_id \in DOMAIN mix_states' :
        LET state == mix_states'[job_id]
            counted == state.chunks_done # None /\ state.chunks_total # None
        IN
        /\ state.progress # None
            => FracLe(Zero, Val(state.progress)) /\ FracLe(Val(state.progress), One)
        /\ counted => Val(state.chunks_done) <= Val(state.chunks_total)
        /\ (counted /\ state.progress # None)
            => Val(state.progress) = Frac(Val(state.chunks_done), Val(state.chunks_total))
        /\ (/\ job_id \in DOMAIN mix_states
            /\ Get(mix_tokens', job_id) = Get(mix_tokens, job_id)
            /\ mix_states[job_id].chunks_done # None
            /\ state.chunks_done # None)
            => Val(state.chunks_done) >= Val(mix_states[job_id].chunks_done)]_vars

\* C37: a stored MixRunState that is DONE with an output reference names an
\* output file that exists in the output directory of its job, the file
\* of the run whose token the job holds.
C37_DoneOutputExists ==
    \A job_id \in DOMAIN mix_states :
        LET state == mix_states[job_id] IN
        (state.status = "DONE" /\ state.output_url # None)
            => /\ Exists(outputs, Val(state.output_url))
               /\ OutputJob(Val(state.output_url)) = job_id
               /\ Get(mix_tokens, job_id) = state.output_url

\* C39: whatever the loader has returned to a thread is a model that was
\* loaded onto the device returned with it.
C39_LoaderTripleConsistent ==
    calc.op = "sam_audio" =>
        \A t \in SepThreads :
            calc.sep[t].got # None
                => Val(calc.sep[t].got).model = Val(calc.sep[t].got).device

\* The errors that call for the cpu retry on a device: out of memory of
\* that accelerator, or a channel mismatch.
CallsForRetry(device, exc) ==
    \/ device = "cuda" /\ exc \in {ExcOOM, ExcChannels}
    \/ device = "mps" /\ exc \in {ExcMpsOOM, ExcChannels}

\* C38: a separation calls the inference at most twice. It calls it a
\* second time exactly when the first call, on mps or cuda, failed with
\* out of memory or a channel mismatch and fallback is enabled; the second
\* call is on the cpu, with the model loaded there; its result is the
\* result and its error propagates; any other error of the first call
\* propagates with no second call.
C38_RetryOnceOnCpu ==
    calc.op = "sam_audio" =>
        \A t \in SepThreads :
            LET sep == calc.sep[t]
                retried == sep.pc \in {"load_check", "load_return", "load_lock", "load_store",
                                      "load_publish", "infer"} /\ Len(sep.ran) = 1
            IN
            /\ Len(sep.ran) <= 2
            /\ (Len(sep.ran) = 2 \/ retried)
                => /\ calc.fallback
                   /\ CallsForRetry(sep.ran[1].device, sep.exc)
                   /\ sep.want = "cpu"
            /\ Len(sep.ran) = 2
                => /\ sep.ran[2] = [model |-> "cpu", device |-> "cpu"]
                   /\ sep.pc \in {"returned", "raised"}
            /\ (sep.pc = "raised" /\ Len(sep.ran) = 1)
                => ~(calc.fallback /\ CallsForRetry(sep.ran[1].device, sep.exc))

====
